---- MODULE Spec2Model ----
(***************************************************************************)
(* Geofence transition detector and notification suppression state machine *)
(* of SeLigaAi (services/notificationService.ts, services/storageService.ts *)
(* and the startup code of app/(tabs)/index.tsx).                           *)
(*                                                                         *)
(* The persisted documents (AsyncStorage keys) and the notifications the   *)
(* operating system currently presents are the state.  Every function of   *)
(* the services is an operator from a store record to a store record (and  *)
(* a return value); the actions apply them.  Timestamps are milliseconds   *)
(* since the epoch: Date.toISOString() keeps millisecond precision and     *)
(* new Date(iso) parses it back to the same instant, so the stored string  *)
(* is modelled by the instant it denotes.  The fields that are written    *)
(* and never read by any operation (a registry record's timestamp, a       *)
(* history item's user_device_id, notified_at and created_at) are left out *)
(* of the records.                                                         *)
(*                                                                         *)
(* A call of AsyncStorage or of the notification service may reject.  The  *)
(* faults field of the store names the calls that reject in the operation  *)
(* that runs against it; each function handles a rejection as its code     *)
(* does: its catch block, or none.                                         *)
(***************************************************************************)
EXTENDS Integers, Sequences, FiniteSets, TLC

\* ------------------------------------------------------------------ bounds
\* Notifications the OS delivers in one behaviour (handles are 1..MaxNotifications).
MaxNotifications == 2
\* Horizon of the clock, in minutes.
MaxMinutes == 1
\* Entries into one zone that the sample tracker counts.
MaxEntries == 3
MaxFailures == 1

\* --------------------------------------------------------------- constants
NULL == -1
MsPerMinute == 60000

INSIDE_ZONES_KEY == "inside_zones"
NOTIFICATION_SETTINGS_KEY == "notification_settings"
ACTIVE_NOTIFICATIONS_KEY == "active_notifications"
NOTIFICATION_HISTORY_KEY == "notification_history"
ALERT_POINTS_KEY == "alert_points"

\* The first two built-in alert points.
getDefaultAlertPoints ==
  << [id |-> "1", alert_type |-> "Area de Assalto",
      street |-> "Avenida Getulio Vargas", city |-> "Pedreiras"],
     [id |-> "2", alert_type |-> "Zona de Risco",
      street |-> "Rua Sao Pedro", city |-> "Pedreiras"] >>

AlertPoints == { getDefaultAlertPoints[i] : i \in DOMAIN getDefaultAlertPoints }
AlertPointIds == { ap.id : ap \in AlertPoints }
AlertPointOf(id) == CHOOSE ap \in AlertPoints : ap.id = id

\* Instants the clock can show: each whole minute of the horizon and the
\* millisecond after it.
Clock == { m * MsPerMinute + e : m \in 0..MaxMinutes, e \in { 0, 1 } }
\* Duration the user picks for a timed mute: the whole horizon, so that the
\* clock can pass its end.
MuteMinutes == { MaxMinutes }

VARIABLES
  insideZones,          \* AsyncStorage[INSIDE_ZONES_KEY]: array of zone ids
  activeNotifications,  \* AsyncStorage[ACTIVE_NOTIFICATIONS_KEY]: array of records
  settings,             \* AsyncStorage[NOTIFICATION_SETTINGS_KEY]
  history,              \* AsyncStorage[NOTIFICATION_HISTORY_KEY], newest first
  alertPoints,          \* AsyncStorage[ALERT_POINTS_KEY]: the item, if present
  presented,            \* notifications the OS presents (delivered, not dismissed),
                        \* each with its handle and the alertPointId of its data
  nextId,               \* the next handle the OS hands out
  nextHistoryId,        \* the next fresh history item id
  now,                  \* the clock (ms)
  last,                 \* the step that led here: operation, arguments, result, external calls
  tracker,              \* per zone, the samples fed so far (SpecTracker)
  tasks,                \* operations in flight, step by step (SpecMute)
  app,                  \* the screen's initializeApp, step by step (SpecStartup)
  fault                 \* the location sample in progress and the failures
                        \* injected into it (SpecFaults)

vars == << insideZones, activeNotifications, settings, history, alertPoints,
           presented, nextId, nextHistoryId, now, last, tracker, tasks, app, fault >>

\* ------------------------------------------------------------ array helpers
Includes(s, x) == \E i \in DOMAIN s : s[i] = x
RECURSIVE Filter(_, _)
\* Array.prototype.filter with the predicate "element is a member of keep".
Filter(s, keep) ==
  IF s = << >> THEN << >>
  ELSE IF Head(s) \in keep THEN << Head(s) >> \o Filter(Tail(s), keep)
       ELSE Filter(Tail(s), keep)
Range(s) == { s[i] : i \in DOMAIN s }

\* ------------------------------------------------------------------ stores
NoFaults == [ read |-> {}, write |-> {}, deliver |-> FALSE, dismiss |-> {} ]

\* What getItem gives for a key without item, and a stored string.
NoItem == [ present |-> FALSE, text |-> << >> ]

DefaultSettings == [ isMuted |-> FALSE, mutedUntil |-> NULL, mutedAlertIds |-> << >> ]

\* The store an operation runs against: the persisted documents, the OS's
\* presented notifications, the clock, the faults injected into this
\* operation, the external calls it has issued so far, and whether an
\* exception is propagating out of the code that ran last (error).
Store(f) ==
  [ insideZones |-> insideZones, activeNotifications |-> activeNotifications,
    settings |-> settings, history |-> history, alertPoints |-> alertPoints,
    presented |-> presented,
    nextId |-> nextId, nextHistoryId |-> nextHistoryId,
    now |-> now, faults |-> f, calls |-> << >>, error |-> FALSE ]

\* An exception is thrown, and a catch block takes it (console.error).
Throw(st) == [ st EXCEPT !.error = TRUE ]
Catch(st) == [ st EXCEPT !.error = FALSE ]

\* ------------------------------------------------- OS notification service
\* Notifications.scheduleNotificationAsync with trigger null: the OS presents
\* a notification at once and returns a fresh handle.
scheduleNotificationAsync(st, alertPointId) ==
  [ st EXCEPT !.presented = @ \cup { [ id |-> st.nextId, alertPointId |-> alertPointId ] },
              !.nextId = @ + 1,
              !.calls = Append(@, [ call |-> "deliver", id |-> st.nextId,
                                    alertPointId |-> alertPointId ]) ]

\* Notifications.dismissNotificationAsync: the OS takes the notification down
\* (a handle it no longer presents is ignored).
dismissNotificationAsync(st, notificationId) ==
  [ st EXCEPT !.presented = { n \in @ : n.id # notificationId },
              !.calls = Append(@, [ call |-> "dismiss", id |-> notificationId,
                                    alertPointId |-> "" ]) ]

\* ------------------------------------------------------- zone membership
\* Faulty variant: a read that fails still yields the stored set.
getInsideZones_NeverEmptyOnFailure(st) == st.insideZones

getInsideZones(st) ==
  IF INSIDE_ZONES_KEY \in st.faults.read THEN << >> ELSE st.insideZones

\* Faulty variant: the entered zone is never persisted.
addInsideZone_NotPersisted(st, zoneId) == st

\* Faulty variant: the write of the membership set cannot fail.
addInsideZone_WriteNeverFails(st, zoneId) ==
  LET zones == getInsideZones(st) IN
  IF ~Includes(zones, zoneId)
    THEN [ st EXCEPT !.insideZones = Append(zones, zoneId) ]
    ELSE st

addInsideZone(st, zoneId) ==
  LET zones == getInsideZones(st) IN
  IF ~Includes(zones, zoneId) /\ INSIDE_ZONES_KEY \notin st.faults.write
    THEN [ st EXCEPT !.insideZones = Append(zones, zoneId) ]
    ELSE st

\* Faulty variant: the zone is left in the membership set.
removeInsideZone_KeepsZone(st, zoneId) == st

removeInsideZone(st, zoneId) ==
  LET zones == getInsideZones(st)
      filtered == Filter(zones, AlertPointIds \ { zoneId })
  IN IF INSIDE_ZONES_KEY \in st.faults.write THEN st
     ELSE [ st EXCEPT !.insideZones = filtered ]

\* Faulty variant: each call drops the first zone of the set only.
clearInsideZones_DropsFirst(st) ==
  IF INSIDE_ZONES_KEY \in st.faults.write \/ st.insideZones = << >> THEN st
  ELSE [ st EXCEPT !.insideZones = Tail(@) ]

\* Faulty variant: the membership set survives the clear.
clearInsideZones_NoOp(st) == st

clearInsideZones(st) ==
  IF INSIDE_ZONES_KEY \in st.faults.write THEN st
  ELSE [ st EXCEPT !.insideZones = << >> ]

\* ------------------------------------------- active notification registry
getActiveNotifications(st) ==
  IF ACTIVE_NOTIFICATIONS_KEY \in st.faults.read THEN << >>
  ELSE st.activeNotifications

saveActiveNotification(st, notificationId, alertPointId) ==
  LET notifications == getActiveNotifications(st)
      pushed == Append(notifications,
                       [ notificationId |-> notificationId,
                         alertPointId |-> alertPointId ])
  IN IF ACTIVE_NOTIFICATIONS_KEY \in st.faults.write THEN st
     ELSE [ st EXCEPT !.activeNotifications = pushed ]

\* Faulty variant: the records of every zone are removed.
removeActiveNotification_RemovesAll(st, alertPointId) ==
  IF ACTIVE_NOTIFICATIONS_KEY \in st.faults.write THEN st
  ELSE [ st EXCEPT !.activeNotifications = << >> ]

\* Faulty variant: the zone's record is left in the registry.
removeActiveNotification_KeepsRecord(st, alertPointId) == st

removeActiveNotification(st, alertPointId) ==
  LET notifications == getActiveNotifications(st)
      filtered == Filter(notifications,
                         { n \in Range(notifications) : n.alertPointId # alertPointId })
  IN IF ACTIVE_NOTIFICATIONS_KEY \in st.faults.write THEN st
     ELSE [ st EXCEPT !.activeNotifications = filtered ]

\* Array.prototype.find: the records of the zone, first match first; the
\* result of find is the head of this array, undefined when it is empty.
FindNotification(records, alertPointId) ==
  Filter(records, { n \in Range(records) : n.alertPointId = alertPointId })

\* Faulty variant: an exit neither dismisses nor unregisters.
dismissNotificationForZone_Skipped(st, alertPointId) == st

dismissNotificationForZone(st, alertPointId) ==
  LET found == FindNotification(getActiveNotifications(st), alertPointId)
  IN IF found = << >> THEN st
     ELSE LET notification == Head(found) IN
       IF notification.notificationId \in st.faults.dismiss
         THEN Catch(Throw(               \* the dismiss throws: caught, the record stays
                [ st EXCEPT !.calls =
                    Append(@, [ call |-> "dismissFailed",
                                id |-> notification.notificationId,
                                alertPointId |-> "" ]) ]))
         ELSE removeActiveNotification(
                dismissNotificationAsync(st, notification.notificationId),
                alertPointId)

RECURSIVE DismissEach(_, _)
\* The for-of loop of dismissAllActiveNotifications over the records read at
\* its start; ok is FALSE when a dismiss threw and ended the loop.
DismissEach(st, records) ==
  IF records = << >> THEN [ st |-> st, ok |-> TRUE ]
  ELSE IF Head(records).notificationId \in st.faults.dismiss
    THEN [ st |-> [ st EXCEPT !.calls =
                      Append(@, [ call |-> "dismissFailed",
                                  id |-> Head(records).notificationId,
                                  alertPointId |-> "" ]) ],
           ok |-> FALSE ]
    ELSE DismissEach(dismissNotificationAsync(st, Head(records).notificationId),
                     Tail(records))

\* Faulty variant: the registry is emptied even when a dismiss has thrown.
dismissAllActiveNotifications_EmptiesOnFailure(st) ==
  LET looped == DismissEach(st, getActiveNotifications(st))
  IN IF ACTIVE_NOTIFICATIONS_KEY \in st.faults.write THEN looped.st
     ELSE [ looped.st EXCEPT !.activeNotifications = << >> ]

\* Faulty variant: the registry is emptied without dismissing its handles.
dismissAllActiveNotifications_OnlyEmpties(st) ==
  IF ACTIVE_NOTIFICATIONS_KEY \in st.faults.write THEN st
  ELSE [ st EXCEPT !.activeNotifications = << >> ]

dismissAllActiveNotifications(st) ==
  LET activeNotifications_ == getActiveNotifications(st)
      looped == DismissEach(st, activeNotifications_)
  IN IF ~looped.ok \/ ACTIVE_NOTIFICATIONS_KEY \in st.faults.write
       THEN looped.st
       ELSE [ looped.st EXCEPT !.activeNotifications = << >> ]

\* ------------------------------------------------------------ zone entry
\* Returns the store after the call and the value returned (TRUE: the zone
\* was just entered and the caller must notify).
\* Faulty variant: level-triggered, every inside sample reports an entry.
checkZoneEntry_LevelTriggered(st, alertPointId, isInside) ==
  LET wasInside == Includes(getInsideZones(st), alertPointId)
  IN IF isInside
       THEN [ st |-> addInsideZone(st, alertPointId), ret |-> TRUE ]
     ELSE IF wasInside
       THEN [ st |-> dismissNotificationForZone(
                       removeInsideZone(st, alertPointId), alertPointId),
              ret |-> FALSE ]
     ELSE [ st |-> st, ret |-> FALSE ]

\* Faulty variant: the stored membership set is not consulted.
checkZoneEntry_NoMemory(st, alertPointId, isInside) ==
  IF isInside
    THEN [ st |-> addInsideZone(st, alertPointId), ret |-> TRUE ]
    ELSE [ st |-> st, ret |-> FALSE ]

checkZoneEntry(st, alertPointId, isInside) ==
  LET insideZones_ == getInsideZones(st)
      wasInside == Includes(insideZones_, alertPointId)
      tried ==
        IF isInside /\ ~wasInside
          THEN [ st |-> addInsideZone(st, alertPointId), ret |-> TRUE ]
        ELSE IF ~isInside /\ wasInside
          THEN [ st |-> dismissNotificationForZone(
                          removeInsideZone(st, alertPointId), alertPointId),
                 ret |-> FALSE ]
        ELSE [ st |-> st, ret |-> FALSE ]
  IN IF tried.st.error                   \* catch: logged, false returned
       THEN [ st |-> Catch(tried.st), ret |-> FALSE ]
       ELSE tried

\* ---------------------------------------------------------- mute settings
\* Faulty variant: settings that cannot be read count as muted.
getNotificationSettings_FailsClosed(st) ==
  IF NOTIFICATION_SETTINGS_KEY \in st.faults.read
    THEN [ DefaultSettings EXCEPT !.isMuted = TRUE ]
  ELSE st.settings

getNotificationSettings(st) ==
  IF NOTIFICATION_SETTINGS_KEY \in st.faults.read THEN DefaultSettings
  ELSE st.settings

saveNotificationSettings(st, newSettings) ==
  IF NOTIFICATION_SETTINGS_KEY \in st.faults.write THEN st
  ELSE [ st EXCEPT !.settings = newSettings ]

\* Faulty variant: switching the permanent mute off also ends the timed mute.
muteNotifications_AlwaysClearsTimed(st, mute) ==
  LET read == getNotificationSettings(st)
  IN saveNotificationSettings(st,
       [ read EXCEPT !.isMuted = mute, !.mutedUntil = NULL ])

muteNotifications(st, mute) ==
  LET read == getNotificationSettings(st)
      flagged == [ read EXCEPT !.isMuted = mute ]
  IN saveNotificationSettings(st,
       IF mute THEN [ flagged EXCEPT !.mutedUntil = NULL ] ELSE flagged)

\* Faulty variant: a timed mute leaves the permanent mute switched on.
setMuteUntil_KeepsIsMuted(st, minutes) ==
  LET read == getNotificationSettings(st)
  IN saveNotificationSettings(st,
       IF minutes = NULL
         THEN [ read EXCEPT !.mutedUntil = NULL ]
         ELSE [ read EXCEPT !.mutedUntil = st.now + minutes * MsPerMinute ])

\* minutes is NULL or a number of minutes; futureDate is now plus minutes.
setMuteUntil(st, minutes) ==
  LET read == getNotificationSettings(st)
  IN saveNotificationSettings(st,
       IF minutes = NULL
         THEN [ read EXCEPT !.mutedUntil = NULL ]
         ELSE [ read EXCEPT !.mutedUntil = st.now + minutes * MsPerMinute,
                            !.isMuted = FALSE ])

\* Faulty variant: muting pushes the id whether or not it is there already.
muteAlert_AlwaysPushes(st, alertId, mute) ==
  LET read == getNotificationSettings(st)
  IN saveNotificationSettings(st,
       IF mute
         THEN [ read EXCEPT !.mutedAlertIds = Append(@, alertId) ]
         ELSE [ read EXCEPT !.mutedAlertIds = Filter(@, AlertPointIds \ { alertId }) ])

\* Faulty variant: muting or unmuting an alert switches the global mutes off.
muteAlert_ResetsGlobalMute(st, alertId, mute) ==
  LET read == [ getNotificationSettings(st) EXCEPT !.isMuted = FALSE,
                                                   !.mutedUntil = NULL ]
  IN saveNotificationSettings(st,
       IF mute
         THEN IF ~Includes(read.mutedAlertIds, alertId)
                THEN [ read EXCEPT !.mutedAlertIds = Append(@, alertId) ]
                ELSE read
         ELSE [ read EXCEPT !.mutedAlertIds = Filter(@, AlertPointIds \ { alertId }) ])

muteAlert(st, alertId, mute) ==
  LET read == getNotificationSettings(st)
  IN saveNotificationSettings(st,
       IF mute
         THEN IF ~Includes(read.mutedAlertIds, alertId)
                THEN [ read EXCEPT !.mutedAlertIds = Append(@, alertId) ]
                ELSE read
         ELSE [ read EXCEPT !.mutedAlertIds = Filter(@, AlertPointIds \ { alertId }) ])

\* Faulty variant: only the permanent mute is looked at.
isNotificationsMuted_IgnoresTimedMute(st) ==
  [ st |-> st, ret |-> getNotificationSettings(st).isMuted ]

\* Faulty variant: the mute still holds at the very instant it ends.
isNotificationsMuted_LateExpiry(st) ==
  LET read == getNotificationSettings(st)
  IN IF read.isMuted THEN [ st |-> st, ret |-> TRUE ]
     ELSE IF read.mutedUntil # NULL
       THEN IF st.now <= read.mutedUntil
              THEN [ st |-> st, ret |-> TRUE ]
              ELSE [ st |-> setMuteUntil(st, NULL), ret |-> FALSE ]
       ELSE [ st |-> st, ret |-> FALSE ]

\* Returns the store after the call (a lapsed timed mute is erased) and the
\* value returned.
isNotificationsMuted(st) ==
  LET read == getNotificationSettings(st)
  IN IF read.isMuted THEN [ st |-> st, ret |-> TRUE ]
     ELSE IF read.mutedUntil # NULL
       THEN IF st.now < read.mutedUntil
              THEN [ st |-> st, ret |-> TRUE ]
              ELSE [ st |-> setMuteUntil(st, NULL), ret |-> FALSE ]
       ELSE [ st |-> st, ret |-> FALSE ]

\* Faulty variant: per-alert mutes are ignored.
isAlertMuted_Never(st, alertId) == FALSE

isAlertMuted(st, alertId) ==
  Includes(getNotificationSettings(st).mutedAlertIds, alertId)

\* Faulty variant: Math.floor in place of Math.ceil.
CeilMinutes_Floor(diff) == diff \div MsPerMinute

\* Math.ceil(diff / 60000) for diff > 0.
CeilMinutes(diff) == (diff + MsPerMinute - 1) \div MsPerMinute

\* Faulty variant: at the very instant the mute ends it is not yet erased.
getMutedTimeRemaining_StrictExpiry(st) ==
  LET read == getNotificationSettings(st)
  IN IF read.mutedUntil = NULL THEN [ st |-> st, ret |-> NULL ]
     ELSE LET diff == read.mutedUntil - st.now IN
       IF diff < 0 THEN [ st |-> setMuteUntil(st, NULL), ret |-> NULL ]
       ELSE [ st |-> st, ret |-> CeilMinutes(diff) ]

getMutedTimeRemaining(st) ==
  LET read == getNotificationSettings(st)
  IN IF read.mutedUntil = NULL THEN [ st |-> st, ret |-> NULL ]
     ELSE LET diff == read.mutedUntil - st.now IN
       IF diff <= 0 THEN [ st |-> setMuteUntil(st, NULL), ret |-> NULL ]
       ELSE [ st |-> st, ret |-> CeilMinutes(diff) ]

\* ---------------------------------------------------- notification history
getNotificationHistory(st) ==
  IF NOTIFICATION_HISTORY_KEY \in st.faults.read THEN << >> ELSE st.history

\* The new item's id (timestamp plus random suffix) is a fresh value.
saveNotificationToHistory(st, alertPoint) ==
  LET read == getNotificationHistory(st)
      notification == [ id |-> st.nextHistoryId,
                        alert_point_id |-> alertPoint.id,
                        alert_type |-> alertPoint.alert_type,
                        street |-> alertPoint.street,
                        city |-> alertPoint.city ]
  IN IF NOTIFICATION_HISTORY_KEY \in st.faults.write THEN st
     ELSE [ st EXCEPT !.history = << notification >> \o read,
                      !.nextHistoryId = @ + 1 ]

\* ----------------------------------------------------------------- dispatch
\* Faulty variant: a delivery that throws is not caught.
scheduleNotification_Uncaught(st, alertPoint) ==
  LET muted == isNotificationsMuted(st)
  IN IF muted.ret THEN muted.st
     ELSE IF isAlertMuted(muted.st, alertPoint.id) THEN muted.st
     ELSE IF st.faults.deliver
       THEN Throw([ muted.st EXCEPT !.calls =
                      Append(@, [ call |-> "deliverFailed", id |-> NULL,
                                  alertPointId |-> alertPoint.id ]) ])
     ELSE LET sent == scheduleNotificationAsync(muted.st, alertPoint.id)
              notificationId == muted.st.nextId
          IN saveNotificationToHistory(
               saveActiveNotification(sent, notificationId, alertPoint.id),
               alertPoint)

\* Faulty variant: the history item is written before the delivery is tried.
scheduleNotification_HistoryFirst(st, alertPoint) ==
  LET muted == isNotificationsMuted(st)
  IN IF muted.ret THEN muted.st
     ELSE IF isAlertMuted(muted.st, alertPoint.id) THEN muted.st
     ELSE IF st.faults.deliver
       THEN Catch(Throw([ saveNotificationToHistory(muted.st, alertPoint)
                            EXCEPT !.calls =
                              Append(@, [ call |-> "deliverFailed", id |-> NULL,
                                          alertPointId |-> alertPoint.id ]) ]))
     ELSE LET sent == scheduleNotificationAsync(muted.st, alertPoint.id)
              notificationId == muted.st.nextId
          IN saveNotificationToHistory(
               saveActiveNotification(sent, notificationId, alertPoint.id),
               alertPoint)

scheduleNotification(st, alertPoint) ==
  LET muted == isNotificationsMuted(st)
  IN IF muted.ret THEN muted.st
     ELSE IF isAlertMuted(muted.st, alertPoint.id) THEN muted.st
     ELSE IF st.faults.deliver                  \* delivery throws: caught
       THEN Catch(Throw([ muted.st EXCEPT !.calls =
                            Append(@, [ call |-> "deliverFailed", id |-> NULL,
                                        alertPointId |-> alertPoint.id ]) ]))
     ELSE LET sent == scheduleNotificationAsync(muted.st, alertPoint.id)
              notificationId == muted.st.nextId
          IN saveNotificationToHistory(
               saveActiveNotification(sent, notificationId, alertPoint.id),
               alertPoint)

\* ------------------------------------------------------------------- state
Tasks == { "a", "b" }

Step(op, id, flag, minutes, ret, retN, calls) ==
  [ op |-> op, id |-> id, flag |-> flag, minutes |-> minutes,
    ret |-> ret, retN |-> retN, calls |-> calls ]

Idle ==
  [ pc |-> "idle", op |-> "", id |-> "", flag |-> FALSE, minutes |-> NULL,
    read |-> DefaultSettings ]

Init ==
  /\ insideZones = << >>
  /\ activeNotifications = << >>
  /\ settings = DefaultSettings
  /\ history = << >>
  /\ alertPoints = NoItem
  /\ presented = {}
  /\ nextId = 1
  /\ nextHistoryId = 1
  /\ now = 0
  /\ last = Step("init", "", FALSE, NULL, FALSE, NULL, << >>)
  /\ tracker = [ prevInside |-> [ z \in AlertPointIds |-> FALSE ],
                 edges |-> [ z \in AlertPointIds |-> 0 ],
                 entered |-> [ z \in AlertPointIds |-> 0 ],
                 open |-> [ z \in AlertPointIds |-> FALSE ],
                 resetSince |-> [ z \in AlertPointIds |-> FALSE ],
                 doubleEntry |-> FALSE,
                 cleared |-> FALSE,
                 repeated |-> FALSE ]
  /\ tasks = [ t \in Tasks |-> Idle ]
  /\ app = [ pc |-> "register", tracking |-> FALSE, sampled |-> FALSE,
             stale |-> FALSE ]
  /\ fault = [ pending |-> << >>, injected |-> NoFaults, evaluated |-> 0,
               failed |-> FALSE, error |-> FALSE, used |-> 0,
               member |-> FALSE ]

\* The operation leaves the store st behind.
Commit(st) ==
  /\ insideZones' = st.insideZones
  /\ activeNotifications' = st.activeNotifications
  /\ settings' = st.settings
  /\ history' = st.history
  /\ alertPoints' = st.alertPoints
  /\ presented' = st.presented
  /\ nextId' = st.nextId
  /\ nextHistoryId' = st.nextHistoryId
  /\ now' = st.now

Completed(op, id, flag, minutes, ret, retN, st) ==
  last' = Step(op, id, flag, minutes, ret, retN, st.calls)

\* One alert point of one location sample: the zone test, and the
\* notification when the zone was just entered.
onLocationSample(st, alertPoint, isInside) ==
  LET checked == checkZoneEntry(st, alertPoint.id, isInside)
  IN [ st |-> IF checked.ret THEN scheduleNotification(checked.st, alertPoint)
              ELSE checked.st,
       ret |-> checked.ret ]

\* Faulty variant: the startup reset clears the membership set only.
initializeApp_ClearsMembershipOnly(st) == clearInsideZones(st)

\* The start of initializeApp: registry clear, then membership clear.
initializeApp(st) == clearInsideZones(dismissAllActiveNotifications(st))

\* ------------------------------------------- actions, one operation at a time
EvaluateStep(id, isInside) ==
  LET done == onLocationSample(Store(NoFaults), AlertPointOf(id), isInside)
  IN /\ done.st.nextId <= MaxNotifications + 1
     /\ Commit(done.st)
     /\ Completed("checkZoneEntry", id, isInside, NULL, done.ret, NULL, done.st)

InitializeStep ==
  LET done == initializeApp(Store(NoFaults))
  IN /\ Commit(done)
     /\ Completed("initializeApp", "", FALSE, NULL, FALSE, NULL, done)

EvaluateAlertPoint(id, isInside) ==
  EvaluateStep(id, isInside) /\ UNCHANGED << tracker, tasks, app, fault >>

InitializeApp ==
  InitializeStep /\ UNCHANGED << tracker, tasks, app, fault >>

MuteNotifications(mute) ==
  LET done == muteNotifications(Store(NoFaults), mute)
  IN /\ Commit(done)
     /\ Completed("muteNotifications", "", mute, NULL, FALSE, NULL, done)
     /\ UNCHANGED << tracker, tasks, app, fault >>

SetMuteUntil(minutes) ==
  LET done == setMuteUntil(Store(NoFaults), minutes)
  IN /\ Commit(done)
     /\ Completed("setMuteUntil", "", FALSE, minutes, FALSE, NULL, done)
     /\ UNCHANGED << tracker, tasks, app, fault >>

MuteAlert(id, mute) ==
  LET done == muteAlert(Store(NoFaults), id, mute)
  IN /\ Commit(done)
     /\ Completed("muteAlert", id, mute, NULL, FALSE, NULL, done)
     /\ UNCHANGED << tracker, tasks, app, fault >>

IsNotificationsMuted ==
  LET done == isNotificationsMuted(Store(NoFaults))
  IN /\ Commit(done.st)
     /\ Completed("isNotificationsMuted", "", FALSE, NULL, done.ret, NULL, done.st)
     /\ UNCHANGED << tracker, tasks, app, fault >>

GetMutedTimeRemaining ==
  LET done == getMutedTimeRemaining(Store(NoFaults))
  IN /\ Commit(done.st)
     /\ Completed("getMutedTimeRemaining", "", FALSE, NULL, FALSE, done.ret, done.st)
     /\ UNCHANGED << tracker, tasks, app, fault >>

\* Time passes.
Tick ==
  /\ \E t \in Clock : t > now /\ now' = t
  /\ last' = Step("tick", "", FALSE, NULL, FALSE, NULL, << >>)
  /\ UNCHANGED << insideZones, activeNotifications, settings, history,
                  alertPoints, presented, nextId, nextHistoryId, tracker,
                  tasks, app, fault >>

Next ==
  \/ \E id \in AlertPointIds, isInside \in BOOLEAN : EvaluateAlertPoint(id, isInside)
  \/ InitializeApp
  \/ \E mute \in BOOLEAN : MuteNotifications(mute)
  \/ \E minutes \in MuteMinutes \cup { NULL } : SetMuteUntil(minutes)
  \/ \E id \in AlertPointIds, mute \in BOOLEAN : MuteAlert(id, mute)
  \/ IsNotificationsMuted
  \/ GetMutedTimeRemaining
  \/ Tick

Spec == Init /\ [][Next]_vars

\* --------------------------------- samples with the fed inputs kept on record
\* The same operations, with the tracker recording per zone: the last
\* isInside fed (prevInside), the false-to-true edges fed (edges), the calls
\* that returned TRUE (entered), whether an entry was reported with no exit
\* of the zone or reset since (open), whether a second entry was reported
\* while open (doubleEntry), and whether initializeApp ran since the zone
\* was last evaluated (resetSince) or at all (cleared), and whether the
\* evaluation repeated the call made just before it (repeated).
TrackedEvaluate(id, isInside) ==
  /\ EvaluateStep(id, isInside)
  /\ tracker' =
       [ tracker EXCEPT
           !.prevInside[id] = isInside,
           !.edges[id] = IF isInside /\ ~tracker.prevInside[id] THEN @ + 1 ELSE @,
           !.entered[id] = IF last'.ret THEN @ + 1 ELSE @,
           !.doubleEntry = @ \/ ( last'.ret /\ tracker.open[id] ),
           !.open[id] = IF last'.ret THEN TRUE
                        ELSE IF ~isInside /\ Includes(insideZones, id) THEN FALSE
                        ELSE @,
           !.resetSince[id] = FALSE,
           !.repeated = ( /\ last.op = "checkZoneEntry"
                          /\ last.id = id
                          /\ last.flag = isInside ) ]
  /\ tracker'.entered[id] <= MaxEntries
  /\ tracker'.edges[id] <= MaxEntries
  /\ UNCHANGED << tasks, app, fault >>

TrackedInitializeApp ==
  /\ InitializeStep
  /\ tracker' = [ tracker EXCEPT !.open = [ z \in AlertPointIds |-> FALSE ],
                                 !.resetSince = [ z \in AlertPointIds |-> TRUE ],
                                 !.cleared = TRUE ]
  /\ UNCHANGED << tasks, app, fault >>

NextTracker ==
  \/ \E id \in AlertPointIds, isInside \in BOOLEAN : TrackedEvaluate(id, isInside)
  \/ TrackedInitializeApp
  \/ \E mute \in BOOLEAN : MuteNotifications(mute)

SpecTracker == Init /\ [][NextTracker]_vars

\* ------------------------------------ mute operations, one await at a time
\* Two operations on the settings document may be in flight together (the
\* callers do not wait for one another).  An operation runs in the steps
\* its awaits cut it into: the read of the document (getItem), then the
\* continuation that computes the new document from what was read and
\* writes it (setItem); the lazy expiry of a query is an inner
\* setMuteUntil(null) with a read and a write of its own.  One alert point
\* is muted and unmuted here: the per-alert mutes do not depend on one another.
MuteCalls ==
  { [ op |-> "muteNotifications", id |-> "", flag |-> f, minutes |-> NULL ] : f \in BOOLEAN }
  \cup { [ op |-> "setMuteUntil", id |-> "", flag |-> FALSE, minutes |-> m ] :
           m \in MuteMinutes \cup { NULL } }
  \cup { [ op |-> "muteAlert", id |-> getDefaultAlertPoints[1].id, flag |-> f,
             minutes |-> NULL ] : f \in BOOLEAN }
  \cup { [ op |-> q, id |-> "", flag |-> FALSE, minutes |-> NULL ] :
           q \in { "isNotificationsMuted", "getMutedTimeRemaining" } }

\* The store as the continuation of an operation sees it: the settings are
\* the document the operation read.
View(read) == [ Store(NoFaults) EXCEPT !.settings = read ]

Awaiting == last' = Step("await", "", FALSE, NULL, FALSE, NULL, << >>)

StoreUnchanged ==
  UNCHANGED << insideZones, activeNotifications, settings, history, alertPoints,
               presented,
               nextId, nextHistoryId, now >>

\* The operation is called and its getNotificationSettings reads the document.
Invoke(t, c) ==
  /\ tasks[t].pc = "idle"
  /\ tasks' = [ tasks EXCEPT ![t] =
                  [ pc |-> "continue", op |-> c.op, id |-> c.id, flag |-> c.flag,
                    minutes |-> c.minutes,
                    read |-> getNotificationSettings(Store(NoFaults)) ] ]
  /\ Awaiting
  /\ StoreUnchanged
  /\ UNCHANGED << tracker, app, fault >>

\* muteNotifications, setMuteUntil, muteAlert after their read: the new
\* document is computed from the one read and saved.
ContinueWrite(t) ==
  LET task == tasks[t]
      done == CASE task.op = "muteNotifications" ->
                     muteNotifications(View(task.read), task.flag)
                [] task.op = "setMuteUntil" ->
                     setMuteUntil(View(task.read), task.minutes)
                [] OTHER ->
                     muteAlert(View(task.read), task.id, task.flag)
  IN /\ task.pc = "continue"
     /\ task.op \in { "muteNotifications", "setMuteUntil", "muteAlert" }
     /\ Commit(done)
     /\ Completed(task.op, task.id, task.flag, task.minutes, FALSE, NULL, done)
     /\ tasks' = [ tasks EXCEPT ![t] = Idle ]
     /\ UNCHANGED << tracker, app, fault >>

\* isNotificationsMuted, getMutedTimeRemaining after their read: they return,
\* or find the timed mute lapsed and call setMuteUntil(null).
ContinueQuery(t) ==
  LET task == tasks[t]
      done == IF task.op = "isNotificationsMuted"
                THEN [ q |-> isNotificationsMuted(View(task.read)), n |-> FALSE ]
                ELSE [ q |-> getMutedTimeRemaining(View(task.read)), n |-> TRUE ]
      lapsed == done.q.st.settings # task.read
  IN /\ task.pc = "continue"
     /\ task.op \in { "isNotificationsMuted", "getMutedTimeRemaining" }
     /\ StoreUnchanged
     /\ IF lapsed
          THEN /\ tasks' = [ tasks EXCEPT ![t].pc = "expireRead" ]
               /\ Awaiting
          ELSE /\ tasks' = [ tasks EXCEPT ![t] = Idle ]
               /\ last' = Step(task.op, "", FALSE, NULL,
                               IF done.n THEN FALSE ELSE done.q.ret,
                               IF done.n THEN done.q.ret ELSE NULL, << >>)
     /\ UNCHANGED << tracker, app, fault >>

\* The inner setMuteUntil(null) reads the document.
ExpireRead(t) ==
  /\ tasks[t].pc = "expireRead"
  /\ tasks' = [ tasks EXCEPT ![t].pc = "expireWrite",
                             ![t].read = getNotificationSettings(Store(NoFaults)) ]
  /\ Awaiting
  /\ StoreUnchanged
  /\ UNCHANGED << tracker, app, fault >>

\* The inner setMuteUntil(null) saves the document with mutedUntil null, and
\* the query returns.
ExpireWrite(t) ==
  LET task == tasks[t]
      done == setMuteUntil(View(task.read), NULL)
  IN /\ task.pc = "expireWrite"
     /\ Commit(done)
     /\ Completed(task.op, "", FALSE, NULL, FALSE, NULL, done)
     /\ tasks' = [ tasks EXCEPT ![t] = Idle ]
     /\ UNCHANGED << tracker, app, fault >>

NextMute ==
  \/ \E t \in Tasks, c \in MuteCalls : Invoke(t, c)
  \/ \E t \in Tasks : ContinueWrite(t)
  \/ \E t \in Tasks : ContinueQuery(t)
  \/ \E t \in Tasks : ExpireRead(t)
  \/ \E t \in Tasks : ExpireWrite(t)
  \/ Tick

SpecMute == Init /\ [][NextMute]_vars

\* ------------------------------------------ initializeApp, one await at a time
\* app.pc is the await initializeApp stands at: "register", "dismissAll",
\* "clear", "permissions", "locate" (current position, reverse geocoding,
\* sheet sync and loadAlertPoints), "track", "status"; or how it ended:
\* "ready" (ran to its end), "denied" (returned for want of the location
\* permission), "failed" (an await threw into its catch).  app.tracking:
\* startLocationTracking has started the sample stream of this session;
\* app.sampled: a sample was handled since; app.stale: the session before
\* left zones in the membership set.  Every call of the platform returns
\* or throws.
StartupFrame == UNCHANGED << tracker, tasks, fault >>

StartupStep(op, ok) == last' = Step(op, "", FALSE, NULL, ok, NULL, << >>)

RegisterForPush(ok) ==
  /\ app.pc = "register"
  /\ app' = [ app EXCEPT !.pc = IF ok THEN "dismissAll" ELSE "failed" ]
  /\ StartupStep("registerForPushNotificationsAsync", ok)
  /\ StoreUnchanged
  /\ StartupFrame

StartupDismissAll ==
  LET done == dismissAllActiveNotifications(Store(NoFaults))
  IN /\ app.pc = "dismissAll"
     /\ Commit(done)
     /\ Completed("dismissAllActiveNotifications", "", FALSE, NULL, FALSE, NULL, done)
     /\ app' = [ app EXCEPT !.pc = "clear" ]
     /\ StartupFrame

\* Faulty variant: initializeApp goes on without clearing the membership set.
StartupClearInsideZones_Skipped ==
  /\ app.pc = "clear"
  /\ StoreUnchanged
  /\ StartupStep("clearInsideZones", FALSE)
  /\ app' = [ app EXCEPT !.pc = "permissions" ]
  /\ StartupFrame

StartupClearInsideZones ==
  LET done == clearInsideZones(Store(NoFaults))
  IN /\ app.pc = "clear"
     /\ Commit(done)
     /\ Completed("clearInsideZones", "", FALSE, NULL, FALSE, NULL, done)
     /\ app' = [ app EXCEPT !.pc = "permissions" ]
     /\ StartupFrame

\* requestLocationPermissions: granted, or refused and initializeApp returns.
RequestLocationPermissions(hasPermissions) ==
  /\ app.pc = "permissions"
  /\ app' = [ app EXCEPT !.pc = IF hasPermissions THEN "locate" ELSE "denied" ]
  /\ StartupStep("requestLocationPermissions", hasPermissions)
  /\ StoreUnchanged
  /\ StartupFrame

\* getCurrentPositionAsync, the reverse geocoding (failures kept to itself),
\* the sheet sync and loadAlertPoints: none touches the notification stores.
StartupLocate(ok) ==
  /\ app.pc = "locate"
  /\ app' = [ app EXCEPT !.pc = IF ok THEN "track" ELSE "failed" ]
  /\ StartupStep("getCurrentPositionAsync", ok)
  /\ StoreUnchanged
  /\ StartupFrame

\* startLocationTracking: returns whether the sample stream started.
StartLocationTracking(started) ==
  /\ app.pc = "track"
  /\ app' = [ app EXCEPT !.pc = "status", !.tracking = started ]
  /\ StartupStep("startLocationTracking", started)
  /\ StoreUnchanged
  /\ StartupFrame

\* checkNotificationStatus: isNotificationsMuted, then getMutedTimeRemaining.
CheckNotificationStatus ==
  LET muted == isNotificationsMuted(Store(NoFaults))
      remaining == getMutedTimeRemaining(muted.st)
  IN /\ app.pc = "status"
     /\ Commit(remaining.st)
     /\ Completed("checkNotificationStatus", "", FALSE, NULL, muted.ret,
                  remaining.ret, remaining.st)
     /\ app' = [ app EXCEPT !.pc = "ready" ]
     /\ StartupFrame

\* A sample of the stream this session started.
StartupSample(id, isInside) ==
  /\ app.tracking
  /\ EvaluateStep(id, isInside)
  /\ app' = [ app EXCEPT !.sampled = TRUE ]
  /\ StartupFrame

\* The process ends and the app is opened again: the screen mounts and
\* calls initializeApp; the stores are as the last session left them.
Relaunch ==
  /\ app.pc \in { "ready", "denied", "failed" }
  /\ app' = [ pc |-> "register", tracking |-> FALSE, sampled |-> FALSE,
              stale |-> insideZones # << >> ]
  /\ StartupStep("launch", FALSE)
  /\ StoreUnchanged
  /\ StartupFrame

NextStartup ==
  \/ \E ok \in BOOLEAN : RegisterForPush(ok)
  \/ StartupDismissAll
  \/ StartupClearInsideZones
  \/ \E hasPermissions \in BOOLEAN : RequestLocationPermissions(hasPermissions)
  \/ \E ok \in BOOLEAN : StartupLocate(ok)
  \/ \E started \in BOOLEAN : StartLocationTracking(started)
  \/ CheckNotificationStatus
  \/ \E id \in AlertPointIds, isInside \in BOOLEAN : StartupSample(id, isInside)
  \/ \E mute \in BOOLEAN : MuteNotifications(mute) /\ app.pc = "ready"
  \/ Relaunch

SpecStartup == Init /\ [][NextStartup]_vars

\* ------------------------------------------ samples with failures injected
\* Location samples alone, each alert point evaluated under failures; the
\* mute settings stay as installed.
\* The failures one evaluation runs under: none; the reads of one storage
\* key failing; the writes of one key failing; the delivery throwing; every
\* dismiss throwing; or all of these together.
StorageKeys ==
  { INSIDE_ZONES_KEY, ACTIVE_NOTIFICATIONS_KEY, NOTIFICATION_SETTINGS_KEY,
    NOTIFICATION_HISTORY_KEY }

Handles == 1 .. (MaxNotifications + 1)

ReadFault(key) == [ NoFaults EXCEPT !.read = { key } ]
WriteFault(key) == [ NoFaults EXCEPT !.write = { key } ]
DeliverFault == [ NoFaults EXCEPT !.deliver = TRUE ]
DismissFault == [ NoFaults EXCEPT !.dismiss = Handles ]
AllFaults ==
  [ read |-> StorageKeys, write |-> StorageKeys, deliver |-> TRUE,
    dismiss |-> Handles ]

FaultKinds ==
  { NoFaults, DeliverFault, DismissFault, AllFaults }
  \cup { ReadFault(key) : key \in StorageKeys }
  \cup { WriteFault(key) : key \in StorageKeys }

\* The alert points of one sample, in the order the location task walks
\* them, each with the outcome of its geofence test.
SamplePoints(inside) ==
  [ i \in DOMAIN getDefaultAlertPoints |->
      [ id |-> getDefaultAlertPoints[i].id,
        isInside |-> inside[getDefaultAlertPoints[i].id] ] ]

CallFailed(calls) ==
  \E i \in DOMAIN calls : calls[i].call \in { "deliverFailed", "dismissFailed" }

\* One alert point of the sample is evaluated under the failures f; rest
\* are the alert points after it.  An exception leaving the evaluation
\* ends the walk (fault.error).  fault.evaluated counts the alert points of
\* the sample evaluated so far, fault.failed tells whether a delivery or a
\* dismiss of the sample has thrown, fault.used counts the evaluations that
\* ran under failures (at most MaxFailures in a run), fault.member tells
\* whether the zone was in the stored membership set when evaluated.
FaultyEvaluate(point, rest, f, evaluated, failed) ==
  LET done == onLocationSample(Store(f), AlertPointOf(point.id), point.isInside)
      used == fault.used + IF f = NoFaults THEN 0 ELSE 1
  IN /\ done.st.nextId <= MaxNotifications + 1
     /\ used <= MaxFailures
     /\ Commit(done.st)
     /\ Completed("checkZoneEntry", point.id, point.isInside, NULL, done.ret,
                  NULL, done.st)
     /\ fault' = [ pending |-> IF done.st.error THEN << >> ELSE rest,
                   injected |-> f,
                   evaluated |-> evaluated + 1,
                   failed |-> failed \/ CallFailed(done.st.calls),
                   error |-> done.st.error,
                   used |-> used,
                   member |-> Includes(insideZones, point.id) ]
     /\ UNCHANGED << tracker, tasks, app >>

\* A sample arrives: its first alert point is evaluated.
SampleFirst(inside, f) ==
  /\ fault.pending = << >>
  /\ FaultyEvaluate(Head(SamplePoints(inside)), Tail(SamplePoints(inside)),
                    f, 0, FALSE)

\* The walk goes on to the next alert point of the sample.
SampleNext(f) ==
  /\ fault.pending # << >>
  /\ FaultyEvaluate(Head(fault.pending), Tail(fault.pending), f,
                    fault.evaluated, fault.failed)

NextFaults ==
  \/ \E inside \in [ AlertPointIds -> BOOLEAN ], f \in FaultKinds : SampleFirst(inside, f)
  \/ \E f \in FaultKinds : SampleNext(f)

SpecFaults == Init /\ [][NextFaults]_vars

\* ------------------------------------- the mute settings and their failures
\* SpecSettings: the operations of the settings screen one at a time, the
\* clock, and the mute query with the settings document unreadable or
\* unwritable.  SpecFailOpen: the mute modes switched on and off, the
\* clock, and the samples of one alert point under the same failures.
SettingsFaults ==
  { NoFaults, ReadFault(NOTIFICATION_SETTINGS_KEY),
    WriteFault(NOTIFICATION_SETTINGS_KEY) }

\* The durations the settings screen offers, shortest first.
SettingsMinutes == 1 .. (MaxMinutes + 1)

IsNotificationsMutedUnder(f) ==
  LET done == isNotificationsMuted(Store(f))
  IN /\ Commit(done.st)
     /\ Completed("isNotificationsMuted", "", FALSE, NULL, done.ret, NULL, done.st)
     /\ fault' = [ fault EXCEPT !.injected = f, !.error = done.st.error ]
     /\ UNCHANGED << tracker, tasks, app >>

\* A sample of one alert point alone.
EvaluateUnder(id, isInside, f) ==
  /\ fault.pending = << >>
  /\ FaultyEvaluate([ id |-> id, isInside |-> isInside ], << >>, f, 0, FALSE)

NextSettings ==
  \/ \E mute \in BOOLEAN : MuteNotifications(mute)
  \/ \E minutes \in SettingsMinutes \cup { NULL } : SetMuteUntil(minutes)
  \/ \E id \in AlertPointIds, mute \in BOOLEAN : MuteAlert(id, mute)
  \/ \E f \in SettingsFaults : IsNotificationsMutedUnder(f)
  \/ GetMutedTimeRemaining
  \/ Tick

SpecSettings == Init /\ [][NextSettings]_vars

NextFailOpen ==
  \/ \E mute \in BOOLEAN : MuteNotifications(mute)
  \/ \E minutes \in MuteMinutes \cup { NULL } : SetMuteUntil(minutes)
  \/ \E mute \in BOOLEAN : MuteAlert(getDefaultAlertPoints[1].id, mute)
  \/ \E f \in SettingsFaults : IsNotificationsMutedUnder(f)
  \/ Tick
  \/ \E isInside \in BOOLEAN, f \in SettingsFaults :
       EvaluateUnder(getDefaultAlertPoints[1].id, isInside, f)

SpecFailOpen == Init /\ [][NextFailOpen]_vars

\* --------------------------------------------- dismiss calls that may fail
\* Entries, exits and startup resets, one at a time; each may run with the
\* dismiss of any of the handles failing, and nothing else fails.
DismissFaults == { [ NoFaults EXCEPT !.dismiss = H ] : H \in SUBSET Handles }

DismissReset(f) ==
  LET done == initializeApp(Store(f))
      used == fault.used + IF f = NoFaults THEN 0 ELSE 1
  IN /\ fault.pending = << >>
     /\ used <= MaxFailures
     /\ Commit(done)
     /\ Completed("initializeApp", "", FALSE, NULL, FALSE, NULL, done)
     /\ fault' = [ fault EXCEPT !.injected = f, !.used = used,
                                !.failed = CallFailed(done.calls),
                                !.error = done.error ]
     /\ UNCHANGED << tracker, tasks, app >>

NextDismiss ==
  \/ \E id \in AlertPointIds, isInside \in BOOLEAN, f \in DismissFaults :
       EvaluateUnder(id, isInside, f)
  \/ \E f \in DismissFaults : DismissReset(f)

SpecDismiss == Init /\ [][NextDismiss]_vars

\* ------------------------------------ samples and resets, await by await
\* An evaluation of an alert point and a startup reset as the chains of
\* awaits they are: a task holds what its last storage read returned (read)
\* and the handle its delivery returned (notificationId), and another task
\* may run between two of its steps.
InFlight(pc, op, id, flag, read, notificationId) ==
  [ pc |-> pc, op |-> op, id |-> id, flag |-> flag, minutes |-> NULL,
    read |-> read, notificationId |-> notificationId ]

RaceFrame == UNCHANGED << tracker, app, fault >>

\* Entries called and not yet delivered.
Undelivered ==
  Cardinality({ u \in Tasks : tasks[u].pc \in { "addRead", "addWrite", "deliver" } })

\* checkZoneEntry is called and reads the membership set: an entry goes on to
\* addInsideZone, an exit to removeInsideZone, anything else returns false.
BeginEvaluate(t, id, isInside) ==
  LET wasInside == Includes(getInsideZones(Store(NoFaults)), id)
  IN /\ tasks[t].pc = "idle"
     /\ \A u \in Tasks \ { t } : tasks[u].pc = "idle" \/ tasks[u].id # id
     /\ StoreUnchanged
     /\ RaceFrame
     /\ IF isInside /\ ~wasInside
          THEN /\ nextId + Undelivered <= MaxNotifications
               /\ tasks' = [ tasks EXCEPT ![t] =
                     InFlight("addRead", "checkZoneEntry", id, isInside, << >>, NULL) ]
               /\ Awaiting
        ELSE IF ~isInside /\ wasInside
          THEN /\ tasks' = [ tasks EXCEPT ![t] =
                     InFlight("exit", "checkZoneEntry", id, isInside, << >>, NULL) ]
               /\ Awaiting
        ELSE /\ UNCHANGED tasks
             /\ last' = Step("checkZoneEntry", id, isInside, NULL, FALSE, NULL, << >>)

\* addInsideZone reads the membership set.
AddRead(t) ==
  /\ tasks[t].pc = "addRead"
  /\ tasks' = [ tasks EXCEPT ![t].pc = "addWrite",
                             ![t].read = getInsideZones(Store(NoFaults)) ]
  /\ Awaiting
  /\ StoreUnchanged
  /\ RaceFrame

\* addInsideZone saves the set it read with the zone pushed (nothing when
\* the set it read holds the zone), and checkZoneEntry returns true.
AddWrite(t) ==
  LET task == tasks[t]
      done == addInsideZone([ Store(NoFaults) EXCEPT !.insideZones = task.read ],
                            task.id)
  IN /\ task.pc = "addWrite"
     /\ insideZones' = IF Includes(task.read, task.id) THEN insideZones
                       ELSE done.insideZones
     /\ tasks' = [ tasks EXCEPT ![t].pc = "deliver" ]
     /\ last' = Step("addInsideZone", task.id, TRUE, NULL, TRUE, NULL, << >>)
     /\ UNCHANGED << activeNotifications, settings, history, alertPoints,
                     presented, nextId, nextHistoryId, now >>
     /\ RaceFrame

\* scheduleNotification up to the delivery: the mute checks, then the OS
\* presents the notification and returns its handle.
Deliver(t) ==
  LET task == tasks[t]
      muted == isNotificationsMuted(Store(NoFaults))
      suppressed == muted.ret \/ isAlertMuted(muted.st, task.id)
      sent == scheduleNotificationAsync(muted.st, task.id)
  IN /\ task.pc = "deliver"
     /\ RaceFrame
     /\ IF suppressed
          THEN /\ Commit(muted.st)
               /\ tasks' = [ tasks EXCEPT ![t] = Idle ]
               /\ Completed("checkZoneEntry", task.id, TRUE, NULL, TRUE, NULL, muted.st)
          ELSE /\ Commit(sent)
               /\ tasks' = [ tasks EXCEPT ![t].pc = "registerRead",
                                          ![t].notificationId = nextId ]
               /\ Awaiting

\* saveActiveNotification reads the registry.
RegisterRead(t) ==
  /\ tasks[t].pc = "registerRead"
  /\ tasks' = [ tasks EXCEPT ![t].pc = "registerWrite",
                             ![t].read = getActiveNotifications(Store(NoFaults)) ]
  /\ Awaiting
  /\ StoreUnchanged
  /\ RaceFrame

\* saveActiveNotification saves the registry it read with the record pushed.
RegisterWrite(t) ==
  LET task == tasks[t]
      done == saveActiveNotification(
                [ Store(NoFaults) EXCEPT !.activeNotifications = task.read ],
                task.notificationId, task.id)
  IN /\ task.pc = "registerWrite"
     /\ Commit(done)
     /\ tasks' = [ tasks EXCEPT ![t].pc = "history" ]
     /\ Awaiting
     /\ RaceFrame

\* saveNotificationToHistory, and the evaluation is over.
SaveHistory(t) ==
  LET task == tasks[t]
      done == saveNotificationToHistory(Store(NoFaults), AlertPointOf(task.id))
  IN /\ task.pc = "history"
     /\ Commit(done)
     /\ tasks' = [ tasks EXCEPT ![t] = Idle ]
     /\ Completed("checkZoneEntry", task.id, TRUE, NULL, TRUE, NULL, done)
     /\ RaceFrame

\* The exit: removeInsideZone, then dismissNotificationForZone.
Exit(t) ==
  LET task == tasks[t]
      done == dismissNotificationForZone(
                removeInsideZone(Store(NoFaults), task.id), task.id)
  IN /\ task.pc = "exit"
     /\ Commit(done)
     /\ tasks' = [ tasks EXCEPT ![t] = Idle ]
     /\ Completed("checkZoneEntry", task.id, FALSE, NULL, FALSE, NULL, done)
     /\ RaceFrame

\* initializeApp calls dismissAllActiveNotifications, which reads the registry.
BeginReset(t) ==
  /\ tasks[t].pc = "idle"
  /\ tasks' = [ tasks EXCEPT ![t] =
        InFlight("dismissEach", "initializeApp", "", FALSE,
                 getActiveNotifications(Store(NoFaults)), NULL) ]
  /\ Awaiting
  /\ StoreUnchanged
  /\ RaceFrame

\* The loop dismisses the handles of the records read.
ResetDismissEach(t) ==
  LET looped == DismissEach(Store(NoFaults), tasks[t].read)
  IN /\ tasks[t].pc = "dismissEach"
     /\ Commit(looped.st)
     /\ tasks' = [ tasks EXCEPT ![t].pc = "dismissWrite" ]
     /\ Awaiting
     /\ RaceFrame

\* dismissAllActiveNotifications saves the empty registry.
ResetDismissWrite(t) ==
  /\ tasks[t].pc = "dismissWrite"
  /\ activeNotifications' = << >>
  /\ tasks' = [ tasks EXCEPT ![t].pc = "clear" ]
  /\ Awaiting
  /\ UNCHANGED << insideZones, settings, history, alertPoints, presented,
                  nextId, nextHistoryId, now >>
  /\ RaceFrame

\* clearInsideZones, and the reset is over.
ResetClear(t) ==
  LET done == clearInsideZones(Store(NoFaults))
  IN /\ tasks[t].pc = "clear"
     /\ Commit(done)
     /\ tasks' = [ tasks EXCEPT ![t] = Idle ]
     /\ Completed("initializeApp", "", FALSE, NULL, FALSE, NULL, done)
     /\ RaceFrame

\* The location task evaluates one alert point at a time, and the screen
\* runs its startup reset meanwhile.
Sampler == { "a" }
Screen == { "b" }

NextReset ==
  \/ \E t \in Sampler, id \in AlertPointIds, isInside \in BOOLEAN :
       BeginEvaluate(t, id, isInside)
  \/ \E t \in Sampler : AddRead(t)
  \/ \E t \in Sampler : AddWrite(t)
  \/ \E t \in Sampler : Deliver(t)
  \/ \E t \in Sampler : RegisterRead(t)
  \/ \E t \in Sampler : RegisterWrite(t)
  \/ \E t \in Sampler : SaveHistory(t)
  \/ \E t \in Sampler : Exit(t)
  \/ \E t \in Screen : BeginReset(t)
  \/ \E t \in Screen : ResetDismissEach(t)
  \/ \E t \in Screen : ResetDismissWrite(t)
  \/ \E t \in Screen : ResetClear(t)

SpecReset == Init /\ [][NextReset]_vars

\* Evaluations of two different alert points in flight together.
NextOverlap ==
  \/ \E t \in Tasks, id \in AlertPointIds, isInside \in BOOLEAN :
       BeginEvaluate(t, id, isInside)
  \/ \E t \in Tasks : AddRead(t)
  \/ \E t \in Tasks : AddWrite(t)
  \/ \E t \in Tasks : Deliver(t)
  \/ \E t \in Tasks : RegisterRead(t)
  \/ \E t \in Tasks : RegisterWrite(t)
  \/ \E t \in Tasks : SaveHistory(t)
  \/ \E t \in Tasks : Exit(t)

SpecOverlap == Init /\ [][NextOverlap]_vars

\* ------------------------------------------- history and alert point storage
\* JSON.stringify of an array gives a string, never the empty string, so a
\* stored item is truthy; JSON.parse gives back the array the string was made
\* from.
JSON_stringify(value) == [ present |-> TRUE, text |-> value ]
JSON_parse(stored) == stored.text

\* Faulty variant: an empty stored list is taken for no stored list.
getAllAlertPoints_EmptyIsDefault(st) ==
  [ st |-> st,
    ret |-> IF ALERT_POINTS_KEY \in st.faults.read THEN getDefaultAlertPoints
            ELSE IF st.alertPoints.present /\ JSON_parse(st.alertPoints) # << >>
              THEN JSON_parse(st.alertPoints)
            ELSE getDefaultAlertPoints ]

getAllAlertPoints(st) ==
  [ st |-> st,
    ret |-> IF ALERT_POINTS_KEY \in st.faults.read THEN getDefaultAlertPoints
            ELSE IF st.alertPoints.present THEN JSON_parse(st.alertPoints)
            ELSE getDefaultAlertPoints ]

saveAlertPoints(st, points) ==
  IF ALERT_POINTS_KEY \in st.faults.write THEN st
  ELSE [ st EXCEPT !.alertPoints = JSON_stringify(points) ]

deleteAlertPoint(st, id) ==
  LET points == getAllAlertPoints(st).ret
      filtered == Filter(points, { p \in Range(points) : p.id # id })
  IN saveAlertPoints(st, filtered)

\* Faulty variant: the item at the head goes, whatever its id.
deleteNotification_DropsNewest(st, id) ==
  LET read == getNotificationHistory(st)
  IN IF NOTIFICATION_HISTORY_KEY \in st.faults.write THEN st
     ELSE [ st EXCEPT !.history = IF read = << >> THEN << >> ELSE Tail(read) ]

deleteNotification(st, id) ==
  LET read == getNotificationHistory(st)
      filtered == Filter(read, { n \in Range(read) : n.id # id })
  IN IF NOTIFICATION_HISTORY_KEY \in st.faults.write THEN st
     ELSE [ st EXCEPT !.history = filtered ]

clearNotificationHistory(st) ==
  IF NOTIFICATION_HISTORY_KEY \in st.faults.write THEN st
  ELSE [ st EXCEPT !.history = << >> ]

\* multiRemove of both keys; a failure removes neither.
clearAllData(st) ==
  IF st.faults.write \cap { ALERT_POINTS_KEY, NOTIFICATION_HISTORY_KEY } # {}
    THEN st
  ELSE [ st EXCEPT !.alertPoints = NoItem, !.history = << >> ]

\* A string that JSON.parse rejects.
NotJSON == [ present |-> TRUE, text |-> [ malformed |-> TRUE ] ]
IsJSON(jsonString) == "malformed" \notin DOMAIN jsonString.text

\* Faulty variant: the stored alert points are exported, none when no item
\* is stored.
exportAllData_StoredOnly(st) ==
  [ st |-> st,
    ret |-> JSON_stringify(
              [ alertPoints |-> IF st.alertPoints.present
                                  THEN JSON_parse(st.alertPoints) ELSE << >>,
                history |-> getNotificationHistory(st) ]) ]

\* The exported string holds what getAllAlertPoints and
\* getNotificationHistory return (and the export time, which nothing reads).
exportAllData(st) ==
  [ st |-> st,
    ret |-> JSON_stringify(
              [ alertPoints |-> getAllAlertPoints(st).ret,
                history |-> getNotificationHistory(st) ]) ]

\* JSON.parse throwing, or the setItem of the history rejecting, is caught
\* and false is returned; saveAlertPoints keeps its own failure to itself.
\* Both arrays of an exported string are truthy, empty or not.
importData(st, jsonString) ==
  IF ~IsJSON(jsonString) THEN [ st |-> Catch(Throw(st)), ret |-> FALSE ]
  ELSE LET data == JSON_parse(jsonString)
           saved == saveAlertPoints(st, data.alertPoints)
       IN IF NOTIFICATION_HISTORY_KEY \in st.faults.write
            THEN [ st |-> Catch(Throw(saved)), ret |-> FALSE ]
            ELSE [ st |-> [ saved EXCEPT !.history = data.history ],
                   ret |-> TRUE ]

\* The lists the user saves: the built-in points, reordered, or some of them.
PointLists ==
  { << >>, << getDefaultAlertPoints[1] >>, << getDefaultAlertPoints[2] >>,
    getDefaultAlertPoints,
    << getDefaultAlertPoints[2], getDefaultAlertPoints[1] >> }

\* The ids the user can ask to delete: every id handed out, and one more.
HistoryIds == 1 .. (MaxNotifications + 1)

\* The failures an operation runs under: none, or the reads or the writes of
\* a key it uses failing.
PointFaults ==
  { NoFaults, ReadFault(ALERT_POINTS_KEY), WriteFault(ALERT_POINTS_KEY) }
HistoryFaults ==
  { NoFaults, ReadFault(NOTIFICATION_HISTORY_KEY),
    WriteFault(NOTIFICATION_HISTORY_KEY) }
DataFaults == PointFaults \cup HistoryFaults

DataFrame(f) ==
  /\ fault' = [ fault EXCEPT !.injected = f ]
  /\ UNCHANGED << tracker, tasks, app >>

DeleteNotification(id, f) ==
  LET done == deleteNotification(Store(f), id)
  IN /\ Commit(done)
     /\ Completed("deleteNotification", id, FALSE, NULL, FALSE, NULL, done)
     /\ DataFrame(f)

ClearNotificationHistory(f) ==
  LET done == clearNotificationHistory(Store(f))
  IN /\ Commit(done)
     /\ Completed("clearNotificationHistory", "", FALSE, NULL, FALSE, NULL, done)
     /\ DataFrame(f)

SaveAlertPoints(points, f) ==
  LET done == saveAlertPoints(Store(f), points)
  IN /\ Commit(done)
     /\ Completed("saveAlertPoints", points, FALSE, NULL, FALSE, NULL, done)
     /\ DataFrame(f)

GetAllAlertPoints(f) ==
  LET done == getAllAlertPoints(Store(f))
  IN /\ Commit(done.st)
     /\ Completed("getAllAlertPoints", "", FALSE, NULL, done.ret, NULL, done.st)
     /\ DataFrame(f)

DeleteAlertPoint(id, f) ==
  LET done == deleteAlertPoint(Store(f), id)
  IN /\ Commit(done)
     /\ Completed("deleteAlertPoint", id, FALSE, NULL, FALSE, NULL, done)
     /\ DataFrame(f)

ClearAllData(f) ==
  LET done == clearAllData(Store(f))
  IN /\ Commit(done)
     /\ Completed("clearAllData", "", FALSE, NULL, FALSE, NULL, done)
     /\ DataFrame(f)

ExportAllData(f) ==
  LET done == exportAllData(Store(f))
  IN /\ Commit(done.st)
     /\ Completed("exportAllData", "", FALSE, NULL, done.ret, NULL, done.st)
     /\ DataFrame(f)

\* The strings handed to importData: what exportAllData returns now, a backup
\* with other alert points, and a string that is not JSON.
ImportStrings ==
  { exportAllData(Store(g)).ret : g \in DataFaults }
  \cup { JSON_stringify([ alertPoints |-> points, history |-> << >> ]) :
           points \in PointLists }
  \cup { NotJSON }

ImportData(jsonString, f) ==
  LET done == importData(Store(f), jsonString)
  IN /\ Commit(done.st)
     /\ Completed("importData", jsonString, FALSE, NULL, done.ret, NULL, done.st)
     /\ DataFrame(f)

DataEvaluate(id, isInside) ==
  EvaluateStep(id, isInside) /\ DataFrame(NoFaults)

NextData ==
  \/ \E id \in AlertPointIds, isInside \in BOOLEAN : DataEvaluate(id, isInside)
  \/ \E id \in HistoryIds, f \in HistoryFaults : DeleteNotification(id, f)
  \/ \E f \in HistoryFaults : ClearNotificationHistory(f)
  \/ \E points \in PointLists, f \in PointFaults : SaveAlertPoints(points, f)
  \/ \E f \in PointFaults : GetAllAlertPoints(f)
  \/ \E id \in AlertPointIds, f \in PointFaults : DeleteAlertPoint(id, f)
  \/ \E f \in DataFaults : ClearAllData(f)
  \/ \E f \in DataFaults : ExportAllData(f)
  \/ \E jsonString \in ImportStrings, f \in DataFaults : ImportData(jsonString, f)

SpecData == Init /\ [][NextData]_vars

\* ------------------------------------------------------------- properties
\* Positions of the registry records of zone z.
RecordsOf(registry, z) == { i \in DOMAIN registry : registry[i].alertPointId = z }
\* Notifications the OS presents for zone z.
PresentedFor(shown, z) == { n \in shown : n.alertPointId = z }
\* Handles delivered for zone z, and handles dismissed, by the calls of a step.
DeliveredFor(calls, z) ==
  { calls[i].id : i \in { j \in DOMAIN calls :
                            calls[j].call = "deliver" /\ calls[j].alertPointId = z } }
DismissedBy(calls) ==
  { calls[i].id : i \in { j \in DOMAIN calls : calls[j].call = "dismiss" } }
\* The mute policy as the specification words it, on the stored settings.
GloballySuppressed ==
  \/ settings.isMuted
  \/ settings.mutedUntil # NULL /\ now < settings.mutedUntil
Suppressed(z) == GloballySuppressed \/ Includes(settings.mutedAlertIds, z)
\* The step taken is checkZoneEntry(z, isInside), followed by
\* scheduleNotification when it returned TRUE.
Evaluates(z, isInside) ==
  last'.op = "checkZoneEntry" /\ last'.id = z /\ last'.flag = isInside

C3_ExitDismissesAndUnregisters ==
  [][ \A z \in AlertPointIds :
        ( /\ Evaluates(z, FALSE)
          /\ Includes(insideZones, z)
          /\ RecordsOf(activeNotifications, z) # {} )
        => ( /\ ~Includes(insideZones', z)
             /\ \A i \in RecordsOf(activeNotifications, z) :
                  /\ activeNotifications[i].notificationId \in DismissedBy(last'.calls)
                  /\ \A n \in presented' : n.id # activeNotifications[i].notificationId
             /\ RecordsOf(activeNotifications', z) = {}
             /\ last'.ret = FALSE )
    ]_vars

\* C3 witness: an exit has just dismissed a handle and emptied the registry
\* while the other zone is still inside.
C3_Witness ==
  /\ last.op = "checkZoneEntry" /\ ~last.flag /\ ~last.ret
  /\ DismissedBy(last.calls) # {}
  /\ ~Includes(insideZones, last.id)
  /\ insideZones # << >>

\* C4: scheduleNotification(ap) attempts delivery exactly when isMuted is
\* false, mutedUntil is null or not after now, and ap.id is not in
\* mutedAlertIds; the global checks run first, so a lapsed timed mute is
\* erased even when the alert itself is muted.
C4_DeliversIffNotSuppressed ==
  [][ \A z \in AlertPointIds :
        ( Evaluates(z, TRUE) /\ last'.ret )
        => ( /\ ( DeliveredFor(last'.calls, z) # {} )
                  <=> ( /\ ~settings.isMuted
                        /\ ( settings.mutedUntil = NULL \/ now >= settings.mutedUntil )
                        /\ ~Includes(settings.mutedAlertIds, z) )
             /\ ( ~settings.isMuted /\ settings.mutedUntil # NULL
                  /\ now >= settings.mutedUntil )
                => settings'.mutedUntil = NULL )
    ]_vars

\* C4 witness: an entry was not delivered because of the per-alert mute
\* alone, after the global check had erased a lapsed timed mute.
C4_Witness ==
  /\ last.op = "checkZoneEntry" /\ last.flag /\ last.ret
  /\ last.calls = << >>
  /\ Includes(settings.mutedAlertIds, last.id)
  /\ ~settings.isMuted /\ settings.mutedUntil = NULL
  /\ now >= MsPerMinute

\* C5: a zone entered while suppressed is still added to the membership set,
\* and nothing is delivered, registered or added to the history.
C5_SuppressedEntryOnlyFlipsMembership ==
  [][ \A z \in AlertPointIds :
        ( /\ Evaluates(z, TRUE)
          /\ ~Includes(insideZones, z)
          /\ Suppressed(z) )
        => ( /\ Includes(insideZones', z)
             /\ last'.calls = << >>
             /\ presented' = presented
             /\ activeNotifications' = activeNotifications
             /\ history' = history )
    ]_vars

\* C5 witness: a zone was just entered under a running timed mute.
C5_Witness ==
  /\ last.op = "checkZoneEntry" /\ last.flag /\ last.ret
  /\ Includes(insideZones, last.id)
  /\ ~settings.isMuted /\ settings.mutedUntil # NULL /\ now < settings.mutedUntil
  /\ PresentedFor(presented, last.id) = {}

\* C6: while z stays in the membership set after a suppressed entry (nothing
\* is presented for z), no step delivers a notification for z, whatever the
\* mute settings have become; a notification for z is delivered only by an
\* entry into z from outside.
C6_NoDeliveryUntilReentry ==
  [][ \A z \in AlertPointIds :
        /\ ( Includes(insideZones, z) /\ PresentedFor(presented, z) = {} )
           => ( DeliveredFor(last'.calls, z) = {}
                /\ PresentedFor(presented', z) = {} )
        /\ DeliveredFor(last'.calls, z) # {}
           => ( ~Includes(insideZones, z) /\ Evaluates(z, TRUE) )
    ]_vars

\* C6 witness: another inside sample for a zone entered under a mute has
\* just been handled with no mute left, and nothing was delivered.
C6_Witness ==
  /\ last.op = "checkZoneEntry" /\ last.flag /\ ~last.ret
  /\ Includes(insideZones, last.id)
  /\ PresentedFor(presented, last.id) = {}
  /\ ~Suppressed(last.id)
  /\ history = << >>

\* C8: with isMuted false, isNotificationsMuted on a timed mute that is not
\* after now returns false and leaves mutedUntil null, isMuted and
\* mutedAlertIds unchanged; on one still in the future it returns true and
\* changes nothing.  The passing of time alone never clears mutedUntil.
C8_LazyExpiry ==
  [][ /\ ( /\ last'.op = "isNotificationsMuted"
           /\ ~settings.isMuted /\ settings.mutedUntil # NULL )
         => IF settings.mutedUntil <= now
              THEN /\ last'.ret = FALSE
                   /\ settings' = [ settings EXCEPT !.mutedUntil = NULL ]
              ELSE /\ last'.ret = TRUE
                   /\ settings' = settings
      /\ last'.op = "tick" => settings' = settings
    ]_vars

\* C8 witness: the check has just erased a timed mute at the very instant
\* it ended.
C8_Witness ==
  /\ last.op = "isNotificationsMuted" /\ ~last.ret
  /\ settings.mutedUntil = NULL /\ ~settings.isMuted
  /\ now = MaxMinutes * MsPerMinute
  /\ settings.mutedAlertIds # << >>

\* C10: dismissAllActiveNotifications issues a dismiss for every handle the
\* registry held when it started and leaves the registry empty.
C10_DismissAllDismissesEveryHandle ==
  [][ last'.op = "initializeApp"
      => ( /\ \A i \in DOMAIN activeNotifications :
                /\ activeNotifications[i].notificationId \in DismissedBy(last'.calls)
                /\ \A n \in presented' : n.id # activeNotifications[i].notificationId
           /\ activeNotifications' = << >> )
    ]_vars

\* C10 witness: a restart has just dismissed two registered handles.
C10_Witness ==
  /\ last.op = "initializeApp"
  /\ Cardinality(DismissedBy(last.calls)) = 2
  /\ activeNotifications = << >> /\ presented = {}

\* C1: with checkZoneEntry calls run one after another from an empty
\* membership set, the calls that returned true for a zone are as many as
\* the false-to-true edges of the isInside values fed for it (a false assumed
\* before the first); and no two calls return true for a zone without an exit
\* of that zone or a clearInsideZones between them.
C1_EnteredCountsEdges ==
  /\ ~tracker.cleared
     => \A z \in AlertPointIds : tracker.entered[z] = tracker.edges[z]
  /\ ~tracker.doubleEntry

\* C1 witness: three entry episodes of one zone, the last fed sample a
\* repeated inside one, no reset so far.
C1_Witness ==
  \E z \in AlertPointIds :
    /\ ~tracker.cleared
    /\ tracker.entered[z] = MaxEntries /\ tracker.edges[z] = MaxEntries
    /\ last.op = "checkZoneEntry" /\ last.id = z /\ last.flag /\ ~last.ret

\* C9: after initializeApp ran while z was in the membership set and no
\* exit from z was observed, the next checkZoneEntry(z, true) returns true
\* again and, when not suppressed, delivers and registers a new notification
\* for z.
C9_RestartReentersZone ==
  [][ \A z \in AlertPointIds :
        ( /\ Evaluates(z, TRUE)
          /\ tracker.prevInside[z]
          /\ tracker.resetSince[z] )
        => ( /\ last'.ret = TRUE
             /\ ~Suppressed(z)
                => \E h \in DeliveredFor(last'.calls, z) :
                     /\ [ id |-> h, alertPointId |-> z ] \in presented'
                     /\ \E i \in RecordsOf(activeNotifications', z) :
                          activeNotifications'[i].notificationId = h )
    ]_vars

\* C9 witness: the zone was notified, the app restarted with the device
\* still inside, and the next inside sample has just notified again.
C9_Witness ==
  \E z \in AlertPointIds :
    /\ last.op = "checkZoneEntry" /\ last.id = z /\ last.flag /\ last.ret
    /\ tracker.cleared /\ tracker.edges[z] = 1 /\ tracker.entered[z] = 2
    /\ DeliveredFor(last.calls, z) = { 2 }
    /\ Len(history) = 2

\* C7: in every stored state of the mute settings, whatever the interleaving
\* of the reads and writes of muteNotifications, setMuteUntil, muteAlert and
\* the lazy expiry, isMuted and a non-null mutedUntil never hold together;
\* right after setMuteUntil(n) isMuted reads false, and right after
\* muteNotifications(true) mutedUntil reads null.
C7_MuteModesExclusive ==
  /\ ~( settings.isMuted /\ settings.mutedUntil # NULL )
  /\ ( last.op = "setMuteUntil" /\ last.minutes # NULL ) => ~settings.isMuted
  /\ ( last.op = "muteNotifications" /\ last.flag ) => settings.mutedUntil = NULL

\* C7 witness: setMuteUntil(n) has just written a timed mute while another
\* operation still holds a document it read when the permanent mute was on.
C7_Witness ==
  /\ last.op = "setMuteUntil" /\ last.minutes # NULL
  /\ settings.mutedUntil # NULL
  /\ \E t \in Tasks : tasks[t].pc = "continue" /\ tasks[t].read.isMuted

\* C11: in initializeApp the registry clear and then the membership clear
\* have both completed when startLocationTracking starts the sample stream,
\* so the registry and the membership set are empty at that moment and the
\* first sample handled in the session finds every zone outside (an inside
\* sample reports an entry, an outside sample does nothing); when the
\* location permission is refused the clears have run and tracking is not
\* started in that session.
C11_ClearsBeforeTracking ==
  [][ /\ ( app'.tracking /\ ~app.tracking )
           => ( /\ app.pc = "track"
                /\ insideZones = << >>
                /\ activeNotifications = << >>
                /\ presented = {} )
      /\ \A z \in AlertPointIds :
           ( app.tracking /\ ~app.sampled )
             => ( /\ Evaluates(z, TRUE) => last'.ret = TRUE
                  /\ Evaluates(z, FALSE) => ( last'.ret = FALSE /\ last'.calls = << >> ) )
      /\ app'.pc = "denied"
           => ( /\ insideZones' = << >>
                /\ activeNotifications' = << >>
                /\ ~app'.tracking )
      /\ app.pc = "denied" => ~app'.tracking
    ]_vars

\* The session before left a zone in the membership set; this session
\* cleared it, started tracking, and its first sample reported an entry.
C11_Witness ==
  /\ app.stale
  /\ app.tracking
  /\ app.sampled
  /\ last.op = "checkZoneEntry"
  /\ last.ret = TRUE
  /\ Len(insideZones) = 1

\* C12: no evaluation of an alert point lets an exception out, whichever
\* storage read, storage write, delivery or dismiss fails in it, so the walk
\* over the alert points of a sample is never cut short: once it has ended,
\* every alert point of the sample has been evaluated.
C12_NoErrorEscapes ==
  /\ ~fault.error
  /\ ( fault.pending = << >> /\ last.op = "checkZoneEntry" )
       => fault.evaluated = Len(getDefaultAlertPoints)

\* A delivery or a dismiss threw at the first alert point of the sample,
\* and the second one was evaluated all the same and notified.
C12_Witness ==
  /\ fault.failed
  /\ fault.injected = NoFaults
  /\ fault.pending = << >>
  /\ fault.evaluated = Len(getDefaultAlertPoints)
  /\ DeliveredFor(last.calls, last.id) # {}

\* C13: when the delivery throws on an entry into z, no registry record and
\* no history item are created, nothing is presented, and z is in the
\* membership set afterwards; while z is a member, an inside sample of z
\* evaluated without failure reports no entry and delivers nothing, z
\* leaves the membership set only by its exit, and a delivery for z is made
\* only from a state where z is not a member.
C13_FailedDeliveryNotRetried ==
  [][ \A z \in AlertPointIds :
        /\ ( /\ Evaluates(z, TRUE)
             /\ last'.ret = TRUE
             /\ fault'.injected = DeliverFault )
           => ( /\ last'.calls = << [ call |-> "deliverFailed", id |-> NULL,
                                      alertPointId |-> z ] >>
                /\ activeNotifications' = activeNotifications
                /\ history' = history
                /\ presented' = presented
                /\ Includes(insideZones', z) )
        /\ ( fault'.injected = NoFaults /\ Includes(insideZones, z) )
           => ( /\ Evaluates(z, TRUE)
                     => ( /\ last'.ret = FALSE
                          /\ last'.calls = << >>
                          /\ presented' = presented
                          /\ activeNotifications' = activeNotifications
                          /\ history' = history )
                /\ DeliveredFor(last'.calls, z) = {}
                /\ ~Includes(insideZones', z) => Evaluates(z, FALSE) )
    ]_vars

\* The delivery threw on the only entry into z so far: z is a member with
\* nothing presented and no history item, and a later inside sample of z,
\* evaluated without failure, was not an entry.
C13_Witness ==
  /\ last.op = "checkZoneEntry"
  /\ last.flag = TRUE
  /\ last.ret = FALSE
  /\ fault.injected = NoFaults
  /\ Includes(insideZones, last.id)
  /\ PresentedFor(presented, last.id) = {}
  /\ \A i \in DOMAIN history : history[i].alert_point_id # last.id

\* C14: when the write of the membership set fails while an entry into z is
\* evaluated, checkZoneEntry still returns true, the notification is
\* delivered and the stored membership set is unchanged; and whatever fails,
\* an inside sample of a zone that is not in the stored membership set
\* returns true, so the next inside sample of z is an entry again.
C14_EntryRepeatsAfterWriteFailure ==
  [][ \A z \in AlertPointIds :
        ( Evaluates(z, TRUE) /\ ~Includes(insideZones, z) )
          => ( /\ last'.ret = TRUE
               /\ fault'.injected = WriteFault(INSIDE_ZONES_KEY)
                    => ( /\ insideZones' = insideZones
                         /\ DeliveredFor(last'.calls, z) # {} ) )
    ]_vars

\* An entry was evaluated with the membership write failing: it returned
\* true and its notification is presented, and the zone is not a member.
C14_Witness ==
  /\ last.op = "checkZoneEntry"
  /\ last.flag = TRUE
  /\ last.ret = TRUE
  /\ fault.injected = WriteFault(INSIDE_ZONES_KEY)
  /\ ~Includes(insideZones, last.id)
  /\ PresentedFor(presented, last.id) # {}

\* C16: a storage read that fails is taken for the empty document and
\* raises nothing.  With the membership set unreadable, an inside sample of
\* z returns true and an outside sample returns false, dismisses nothing
\* and leaves membership set, registry and presented notifications as they
\* were; with the registry unreadable, an exit dismisses nothing and leaves
\* the registry and the presented notifications as they were.
C16_UnreadableIsEmpty ==
  [][ \A z \in AlertPointIds :
        /\ fault'.injected = ReadFault(INSIDE_ZONES_KEY)
           => ( /\ Evaluates(z, TRUE) => last'.ret = TRUE
                /\ Evaluates(z, FALSE)
                     => ( /\ last'.ret = FALSE
                          /\ last'.calls = << >>
                          /\ insideZones' = insideZones
                          /\ activeNotifications' = activeNotifications
                          /\ presented' = presented ) )
        /\ ( fault'.injected = ReadFault(ACTIVE_NOTIFICATIONS_KEY) /\ Evaluates(z, FALSE) )
           => ( /\ last'.ret = FALSE
                /\ last'.calls = << >>
                /\ activeNotifications' = activeNotifications
                /\ presented' = presented )
        /\ fault'.injected \in { ReadFault(key) : key \in StorageKeys }
           => ~fault'.error
    ]_vars

\* A member zone with its notification presented was evaluated inside with
\* the membership set unreadable: the sample was taken for an entry and a
\* second notification is presented for the zone.
C16_Witness ==
  /\ last.op = "checkZoneEntry"
  /\ last.flag = TRUE
  /\ last.ret = TRUE
  /\ fault.injected = ReadFault(INSIDE_ZONES_KEY)
  /\ Cardinality(PresentedFor(presented, last.id)) = 2

\* C17: an outside sample of a member zone z that has no registry record
\* issues no dismiss call, leaves the registry and the presented
\* notifications as they were, raises nothing, returns false, and removes z
\* from the membership set (the membership set being readable and writable).
C17_ExitWithoutRecord ==
  [][ \A z \in AlertPointIds :
        ( /\ Evaluates(z, FALSE)
          /\ Includes(insideZones, z)
          /\ RecordsOf(activeNotifications, z) = {}
          /\ INSIDE_ZONES_KEY \notin fault'.injected.read \cup fault'.injected.write )
        => ( /\ last'.ret = FALSE
             /\ last'.calls = << >>
             /\ activeNotifications' = activeNotifications
             /\ presented' = presented
             /\ ~fault'.error
             /\ ~Includes(insideZones', z) )
    ]_vars

\* A member zone whose delivery had thrown, so that it had no registry
\* record and nothing presented, was evaluated outside and left the
\* membership set without a call.
C17_Witness ==
  /\ last.op = "checkZoneEntry"
  /\ last.flag = FALSE
  /\ fault.member
  /\ fault.injected = NoFaults
  /\ last.calls = << >>
  /\ ~Includes(insideZones, last.id)
  /\ RecordsOf(activeNotifications, last.id) = {}
  /\ PresentedFor(presented, last.id) = {}

\* C15: when the settings document cannot be read, getNotificationSettings
\* yields isMuted false, mutedUntil null and no muted alert, and
\* isNotificationsMuted and isAlertMuted return false, whatever is stored;
\* an isNotificationsMuted call made so returns false and writes nothing,
\* and an entry evaluated so is delivered and leaves the settings alone.
C15_FailOpenMute ==
  [][ LET unreadable == Store(ReadFault(NOTIFICATION_SETTINGS_KEY)) IN
      /\ getNotificationSettings(unreadable) =
           [ isMuted |-> FALSE, mutedUntil |-> NULL, mutedAlertIds |-> << >> ]
      /\ isNotificationsMuted(unreadable).ret = FALSE
      /\ \A z \in AlertPointIds : isAlertMuted(unreadable, z) = FALSE
      /\ ( /\ last'.op \in { "isNotificationsMuted", "checkZoneEntry" }
           /\ fault'.injected = ReadFault(NOTIFICATION_SETTINGS_KEY) )
           => ( /\ settings' = settings
                /\ last'.op = "isNotificationsMuted" => last'.ret = FALSE
                /\ \A z \in AlertPointIds :
                     ( Evaluates(z, TRUE) /\ last'.ret = TRUE )
                       => DeliveredFor(last'.calls, z) # {} )
    ]_vars

\* The stored settings mute everything permanently and mute the alert
\* itself, the entry was evaluated with the settings unreadable, and its
\* notification was delivered.
C15_Witness ==
  /\ settings.isMuted
  /\ Includes(settings.mutedAlertIds, last.id)
  /\ fault.injected = ReadFault(NOTIFICATION_SETTINGS_KEY)
  /\ last.op = "checkZoneEntry"
  /\ last.ret = TRUE
  /\ DeliveredFor(last.calls, last.id) # {}

\* C18: checkZoneEntry called again with the same (alertPointId, isInside)
\* right after a call returns false and changes nothing: no membership
\* write, no registry change, no delivery, no dismiss, no history item.
C18_RepeatedCallIsNoOp ==
  [][ \A z \in AlertPointIds, isInside \in BOOLEAN :
        ( /\ Evaluates(z, isInside)
          /\ last.op = "checkZoneEntry"
          /\ last.id = z
          /\ last.flag = isInside )
        => ( /\ last'.ret = FALSE
             /\ last'.calls = << >>
             /\ insideZones' = insideZones
             /\ activeNotifications' = activeNotifications
             /\ presented' = presented
             /\ history' = history
             /\ settings' = settings )
    ]_vars

\* An entry that was notified, and the same inside sample evaluated again
\* right after it: no entry.
C18_Witness ==
  /\ tracker.repeated
  /\ last.op = "checkZoneEntry"
  /\ last.flag = TRUE
  /\ last.ret = FALSE
  /\ PresentedFor(presented, last.id) # {}

\* C19: muteAlert changes neither isMuted nor mutedUntil, and leaves every
\* other alert muted or not, suppressed or not, as it was; muteNotifications
\* and setMuteUntil leave mutedAlertIds as it was.
C19_PerAlertMuteOrthogonal ==
  [][ /\ last'.op = "muteAlert"
           => ( /\ settings'.isMuted = settings.isMuted
                /\ settings'.mutedUntil = settings.mutedUntil
                /\ \A b \in AlertPointIds \ { last'.id } :
                     /\ Includes(settings'.mutedAlertIds, b)
                          <=> Includes(settings.mutedAlertIds, b)
                     /\ Suppressed(b)' <=> Suppressed(b) )
      /\ last'.op \in { "muteNotifications", "setMuteUntil" }
           => settings'.mutedAlertIds = settings.mutedAlertIds
    ]_vars

\* An alert was muted while a timed mute runs and another alert is muted:
\* the timed mute and the other alert's mute are still there.
C19_Witness ==
  /\ last.op = "muteAlert"
  /\ last.flag = TRUE
  /\ settings.mutedUntil # NULL
  /\ now < settings.mutedUntil
  /\ Len(settings.mutedAlertIds) = 2
  /\ settings.mutedAlertIds[2] = last.id

\* C20: getMutedTimeRemaining returns null and changes nothing when
\* mutedUntil is null; when mutedUntil - now <= 0 it sets mutedUntil to null
\* and returns null; otherwise it changes nothing and returns the least
\* whole number of minutes, at least 1, that covers mutedUntil - now.
C20_RemainingIsCeiling ==
  [][ last'.op = "getMutedTimeRemaining"
        => IF settings.mutedUntil = NULL
             THEN last'.retN = NULL /\ settings' = settings
           ELSE IF settings.mutedUntil - now <= 0
             THEN /\ last'.retN = NULL
                  /\ settings' = [ settings EXCEPT !.mutedUntil = NULL ]
           ELSE /\ last'.retN >= 1
                /\ ( last'.retN - 1 ) * MsPerMinute < settings.mutedUntil - now
                /\ settings.mutedUntil - now <= last'.retN * MsPerMinute
                /\ settings' = settings
    ]_vars

\* One minute and one millisecond remain: two minutes are returned.
C20_Witness ==
  /\ last.op = "getMutedTimeRemaining"
  /\ last.retN = 2
  /\ settings.mutedUntil # NULL
  /\ settings.mutedUntil - now = MsPerMinute + 1

\* C21: every evaluation that delivers a notification for z adds exactly one
\* history item, carrying the id, alert_type, street and city of z, and
\* keeps every item the history held; an evaluation that delivers nothing
\* leaves the history as it was (the history write not failing).
C21_DeliveryAddsOneHistoryItem ==
  [][ \A z \in AlertPointIds :
        ( /\ last'.op = "checkZoneEntry"
          /\ last'.id = z
          /\ NOTIFICATION_HISTORY_KEY \notin fault'.injected.write )
        => IF DeliveredFor(last'.calls, z) # {}
             THEN /\ Len(history') = Len(history) + 1
                  /\ \A i \in DOMAIN history :
                       \E j \in DOMAIN history' : history'[j] = history[i]
                  /\ \E j \in DOMAIN history' :
                       /\ \A i \in DOMAIN history : history[i] # history'[j]
                       /\ history'[j].alert_point_id = z
                       /\ history'[j].alert_type = AlertPointOf(z).alert_type
                       /\ history'[j].street = AlertPointOf(z).street
                       /\ history'[j].city = AlertPointOf(z).city
             ELSE history' = history
    ]_vars

\* C22: deleteNotification(id) removes exactly the history items whose id is
\* id and keeps the others, content and relative order unchanged (an id no
\* item has: the history is unchanged); clearNotificationHistory leaves the
\* history empty; neither changes the alert points, the mute settings, the
\* membership set or the registry.
C22_DeleteAndClearHistory ==
  [][ /\ \A id \in HistoryIds :
           ( /\ last'.op = "deleteNotification"
             /\ last'.id = id
             /\ NOTIFICATION_HISTORY_KEY
                  \notin (fault'.injected.read \cup fault'.injected.write) )
           => LET Other(n) == n.id # id
              IN /\ history' = SelectSeq(history, Other)
                 /\ (\A i \in DOMAIN history : history[i].id # id)
                      => history' = history
      /\ ( /\ last'.op = "clearNotificationHistory"
           /\ NOTIFICATION_HISTORY_KEY \notin fault'.injected.write )
         => history' = << >>
      /\ last'.op \in { "deleteNotification", "clearNotificationHistory" }
         => UNCHANGED << alertPoints, settings, insideZones, activeNotifications >>
    ]_vars

\* The older of two items has been deleted: the newer one is what is left.
C22_Witness ==
  /\ last.op = "deleteNotification"
  /\ last.id = 1
  /\ fault.injected = NoFaults
  /\ Len(history) = 1
  /\ history[1].id = 2

\* C23: alert points are replaced in bulk: once saveAlertPoints(P) has
\* succeeded, getAllAlertPoints returns exactly P, whatever was stored before;
\* getAllAlertPoints returns what is stored whenever an item is stored and
\* the read succeeds, and the built-in points when no item is stored or the
\* read fails.
C23_BulkReplace ==
  [][ /\ \A points \in PointLists :
           ( /\ last'.op = "saveAlertPoints"
             /\ last'.id = points
             /\ ALERT_POINTS_KEY \notin fault'.injected.write )
           => getAllAlertPoints(Store(NoFaults))'.ret = points
      /\ last'.op = "getAllAlertPoints"
         => IF alertPoints.present /\ ALERT_POINTS_KEY \notin fault'.injected.read
              THEN \E points \in PointLists :
                     /\ alertPoints = JSON_stringify(points)
                     /\ last'.ret = points
              ELSE last'.ret = getDefaultAlertPoints
    ]_vars

\* The empty list was saved, and getAllAlertPoints has returned it.
C23_Witness ==
  /\ last.op = "getAllAlertPoints"
  /\ fault.injected = NoFaults
  /\ alertPoints.present
  /\ last.ret = << >>

\* C24: clearInsideZones is idempotent: on every store, a second call leaves
\* what the first call left, and no call raises an error, whether its write
\* succeeds or not; a call on an empty membership set leaves it empty, and
\* every clear of initializeApp leaves the membership set empty and the
\* other stores as they were.
C24_ClearIsIdempotent ==
  [][ /\ \A f \in { NoFaults, WriteFault(INSIDE_ZONES_KEY) } :
           LET once == clearInsideZones(Store(f))
               twice == clearInsideZones(once)
           IN /\ twice = once
              /\ ~once.error
              /\ insideZones = << >> => once.insideZones = << >>
              /\ f = NoFaults => once.insideZones = << >>
      /\ last'.op = "clearInsideZones"
         => /\ insideZones' = << >>
            /\ UNCHANGED << activeNotifications, settings, history,
                            alertPoints, presented >>
    ]_vars

\* A clear of a later launch, on a membership set that was already empty.
C24_Witness ==
  /\ last.op = "clearInsideZones"
  /\ ~app.stale
  /\ nextId > 1
  /\ insideZones = << >>

\* C25: with entries, exits and startup resets processed one at a time and
\* only dismiss calls failing, every notification that was delivered and not
\* dismissed has a registry record holding its handle (a record leaves the
\* registry only once its handle has been dismissed).
C25_UndismissedHasRecord ==
  \A n \in presented :
    \E i \in DOMAIN activeNotifications :
      activeNotifications[i].notificationId = n.id

\* C26: with samples and startup resets processed one at a time and nothing
\* failing, after every processed sample or reset each alert point with a
\* record in the registry is in the membership set.
C26_RegisteredZoneIsInside ==
  \A i \in DOMAIN activeNotifications :
    Includes(insideZones, activeNotifications[i].alertPointId)

\* Both zones have a record, after a sample.
C26_Witness ==
  /\ last.op = "checkZoneEntry"
  /\ Len(activeNotifications) = 2
  /\ activeNotifications[1].alertPointId # activeNotifications[2].alertPointId

\* C27: when the startup reset runs while a location sample is still being
\* processed, their reads, writes and delivery interleaved, then once both
\* have finished every notification that was delivered and not dismissed has
\* a registry record, and every alert point with a registry record is in the
\* membership set.
C27_ResetDuringSample ==
  ( \A t \in Tasks : tasks[t].pc = "idle" )
  => /\ \A n \in presented :
          \E i \in DOMAIN activeNotifications :
            activeNotifications[i].notificationId = n.id
     /\ \A i \in DOMAIN activeNotifications :
          Includes(insideZones, activeNotifications[i].alertPointId)

\* C28: no membership update is lost when the evaluations of two different
\* alert points overlap: when an entry's addInsideZone has returned, every
\* alert point that was in the membership set is still in it, next to the
\* one just entered, so none of them reports an entry again on its next
\* inside sample.
C28_NoLostMembership ==
  [][ \A z \in AlertPointIds :
        ( last'.op = "addInsideZone" /\ last'.id = z )
        => /\ Includes(insideZones', z)
           /\ \A y \in AlertPointIds :
                Includes(insideZones, y) => Includes(insideZones', y)
    ]_vars

\* C29: lazy expiry only erases an expired mute: whenever the write of
\* isNotificationsMuted or getMutedTimeRemaining sets mutedUntil to null,
\* the mutedUntil it replaces is not in the future, however a setMuteUntil
\* of the user is interleaved with the query.
C29_ExpiryErasesOnlyExpired ==
  [][ ( /\ last'.op \in { "isNotificationsMuted", "getMutedTimeRemaining" }
        /\ settings.mutedUntil # NULL
        /\ settings'.mutedUntil = NULL )
      => settings.mutedUntil <= now
    ]_vars

\* C30: no mute-settings update is lost when muteAlert(a, true) overlaps
\* with setMuteUntil or muteNotifications: when the later of the two returns,
\* having read the settings before the other one wrote them, the stored
\* settings hold a in mutedAlertIds and the isMuted and mutedUntil the other
\* operation set.
C30_NoLostMuteUpdate ==
  [][ \A t \in Tasks, a \in AlertPointIds :
        LET task == tasks[t] IN
        ( /\ task.pc = "continue"
          /\ tasks'[t].pc = "idle"
          /\ last'.op = task.op )
        => /\ ( /\ task.op = "muteAlert" /\ task.id = a /\ task.flag
                /\ last.op \in { "setMuteUntil", "muteNotifications" } )
              => /\ Includes(settings'.mutedAlertIds, a)
                 /\ settings'.isMuted = settings.isMuted
                 /\ settings'.mutedUntil = settings.mutedUntil
           /\ ( /\ task.op \in { "setMuteUntil", "muteNotifications" }
                /\ last.op = "muteAlert" /\ last.id = a /\ last.flag )
              => Includes(settings'.mutedAlertIds, a)
    ]_vars

\* C31: when a dismiss fails during dismissAllActiveNotifications, the
\* registry is left as it was before the call, the failing dismiss is the
\* last call issued (no handle after the failing one is dismissed, and the
\* notifications of those handles stay presented), no error reaches
\* initializeApp, and initializeApp goes on to empty the membership set.
C31_FailedDismissAllKeepsRegistry ==
  [][ ( last'.op = "initializeApp" /\ CallFailed(last'.calls) )
      => /\ activeNotifications' = activeNotifications
         /\ last'.calls[Len(last'.calls)].call = "dismissFailed"
         /\ \A i, j \in DOMAIN activeNotifications :
              ( /\ activeNotifications[j].notificationId
                     = last'.calls[Len(last'.calls)].id
                /\ i > j )
              => /\ DismissedBy(last'.calls)
                      \cap { activeNotifications[i].notificationId } = {}
                 /\ \A n \in presented :
                      n.id = activeNotifications[i].notificationId
                        => n \in presented'
         /\ ~fault'.error
         /\ insideZones' = << >>
    ]_vars

\* The reset found two records, the dismiss of the first handle failed, and
\* both notifications are still presented and registered.
C31_Witness ==
  /\ last.op = "initializeApp"
  /\ Len(last.calls) = 1
  /\ last.calls[1].call = "dismissFailed"
  /\ Len(activeNotifications) = 2
  /\ last.calls[1].id = activeNotifications[1].notificationId
  /\ Cardinality(presented) = 2
  /\ insideZones = << >>

\* C32: an evaluation of alert point a, exit or entry, affects a only: it
\* issues no dismiss for a handle registered under another alert point b,
\* and it leaves the registry records of b and the membership of b as they
\* were.
C32_OtherZoneUntouched ==
  [][ \A a, b \in AlertPointIds, isInside \in BOOLEAN :
        ( a # b /\ Evaluates(a, isInside) )
        => /\ DismissedBy(last'.calls)
                \cap { activeNotifications[i].notificationId :
                         i \in RecordsOf(activeNotifications, b) } = {}
           /\ FindNotification(activeNotifications', b)
                = FindNotification(activeNotifications, b)
           /\ Includes(insideZones', b) <=> Includes(insideZones, b)
           /\ PresentedFor(presented', b) = PresentedFor(presented, b)
    ]_vars

\* An exit has dismissed the notification of its zone while the other zone
\* keeps its membership and its record.
C32_Witness ==
  /\ last.op = "checkZoneEntry"
  /\ ~last.flag
  /\ DismissedBy(last.calls) # {}
  /\ \E b \in AlertPointIds \ { last.id } :
       /\ Includes(insideZones, b)
       /\ RecordsOf(activeNotifications, b) # {}
       /\ PresentedFor(presented, b) # {}

\* C33: the two mute queries agree.  On the same stored settings at the same
\* instant, with isMuted false, isNotificationsMuted returns true exactly
\* when getMutedTimeRemaining returns a number, both leave the same settings
\* behind, and they erase mutedUntil exactly when it is set and not after
\* now; every query that runs returns what the other one would have
\* returned in its place.
C33_MuteQueriesAgree ==
  [][ ~settings.isMuted
      => LET muted == isNotificationsMuted(Store(NoFaults))
             remaining == getMutedTimeRemaining(Store(NoFaults))
             lapsed == settings.mutedUntil # NULL /\ settings.mutedUntil <= now
         IN /\ muted.ret <=> remaining.ret # NULL
            /\ muted.st.settings = remaining.st.settings
            /\ muted.st.settings # settings <=> lapsed
            /\ lapsed => muted.st.settings = [ settings EXCEPT !.mutedUntil = NULL ]
            /\ ( last'.op = "isNotificationsMuted" /\ fault'.injected = NoFaults )
                 => /\ last'.ret <=> remaining.ret # NULL
                    /\ settings' = remaining.st.settings
            /\ last'.op = "getMutedTimeRemaining"
                 => /\ last'.retN # NULL <=> muted.ret
                    /\ settings' = muted.st.settings
    ]_vars

\* getMutedTimeRemaining has returned a number one millisecond before the
\* timed mute ends, where isNotificationsMuted returns true.
C33_Witness ==
  /\ last.op = "getMutedTimeRemaining"
  /\ last.retN = 1
  /\ ~settings.isMuted
  /\ settings.mutedUntil = now + 1
  /\ isNotificationsMuted(Store(NoFaults)).ret

\* C34: muteNotifications(false) sets isMuted to false and leaves mutedUntil
\* and mutedAlertIds as they were; setMuteUntil(null) sets mutedUntil to null
\* and leaves isMuted and mutedAlertIds as they were.  A timed mute that is
\* running when muteNotifications(false) is called is still in force after
\* it.
C34_UnmuteKeepsOtherMode ==
  [][ /\ ( last'.op = "muteNotifications" /\ ~last'.flag )
         => /\ settings' = [ settings EXCEPT !.isMuted = FALSE ]
            /\ ( settings.mutedUntil # NULL /\ now < settings.mutedUntil )
                 => isNotificationsMuted(Store(NoFaults))'.ret
      /\ ( last'.op = "setMuteUntil" /\ last'.minutes = NULL )
         => settings' = [ settings EXCEPT !.mutedUntil = NULL ]
    ]_vars

\* muteNotifications(false) has run during a timed mute, which is still set.
C34_Witness ==
  /\ last.op = "muteNotifications"
  /\ ~last.flag
  /\ settings.mutedUntil # NULL
  /\ now < settings.mutedUntil
  /\ settings.mutedAlertIds # << >>

\* Times the id occurs in the array.
Occurrences(ids, a) == Cardinality({ i \in DOMAIN ids : ids[i] = a })

\* C35 as stated: muteAlert(a, true) applied twice yields the settings of one
\* application, with a present exactly once, and muteAlert(a, false) after
\* muteAlert(a, true) restores the set of muted ids that held before.
C35_UnmuteRestoresPrevious ==
  \A a \in AlertPointIds :
    LET once == muteAlert(Store(NoFaults), a, TRUE)
        twice == muteAlert(once, a, TRUE)
        undone == muteAlert(once, a, FALSE)
    IN /\ twice.settings = once.settings
       /\ Occurrences(once.settings.mutedAlertIds, a) = 1
       /\ Range(undone.settings.mutedAlertIds) = Range(settings.mutedAlertIds)

\* C35, amended: muteAlert(a, true) applied twice yields the settings of one
\* application, with a present exactly once and no id twice; muteAlert(a,
\* false) after muteAlert(a, true) leaves the ids muted before other than a,
\* in their order, which is the set that held before when a was not muted
\* before; every muteAlert step stores what the function computes.
C35_MuteAlertIdempotent ==
  [][ \A a \in AlertPointIds :
        LET once == muteAlert(Store(NoFaults), a, TRUE)
            twice == muteAlert(once, a, TRUE)
            undone == muteAlert(once, a, FALSE)
            Other(id) == id # a
        IN /\ twice.settings = once.settings
           /\ Occurrences(once.settings.mutedAlertIds, a) = 1
           /\ \A b \in AlertPointIds :
                Occurrences(once.settings.mutedAlertIds, b) <= 1
           /\ undone.settings.mutedAlertIds
                = SelectSeq(settings.mutedAlertIds, Other)
           /\ ~Includes(settings.mutedAlertIds, a)
                => undone.settings = settings
           /\ ( last'.op = "muteAlert" /\ last'.id = a )
                => settings' = IF last'.flag THEN once.settings
                               ELSE muteAlert(Store(NoFaults), a, FALSE).settings
    ]_vars

\* muteAlert(a, true) has run on an alert that was muted already, another
\* alert being muted after it: a is still there once, in its place.
C35_Witness ==
  /\ last.op = "muteAlert"
  /\ last.flag
  /\ Len(settings.mutedAlertIds) = 2
  /\ settings.mutedAlertIds[1] = last.id
  /\ settings.mutedAlertIds[2] # last.id

\* C36: importData of what exportAllData returns gives true and leaves what
\* getAllAlertPoints and getNotificationHistory return as it was, same
\* items in the same order; importData of a string that is not JSON gives
\* false and changes neither the alert points nor the history.
C36_ExportImportRoundTrip ==
  [][ last'.op = "importData"
      => /\ ( /\ last'.id = exportAllData(Store(NoFaults)).ret
              /\ fault'.injected = NoFaults )
            => /\ last'.ret = TRUE
               /\ getAllAlertPoints(Store(NoFaults))'.ret
                    = getAllAlertPoints(Store(NoFaults)).ret
               /\ getNotificationHistory(Store(NoFaults))'
                    = getNotificationHistory(Store(NoFaults))
         /\ ~IsJSON(last'.id)
            => /\ last'.ret = FALSE
               /\ UNCHANGED << alertPoints, history >>
    ]_vars

\* The export was imported while no alert points item was stored: the
\* built-in points are stored now, and the history is the one exported.
C36_Witness ==
  /\ last.op = "importData"
  /\ last.ret = TRUE
  /\ fault.injected = NoFaults
  /\ last.id = exportAllData(Store(NoFaults)).ret
  /\ alertPoints = JSON_stringify(getDefaultAlertPoints)
  /\ Len(history) = 2

====
